---- MODULE Spec2Model ----
(***************************************************************************)
(* Model of the NMS plugin's job dispatcher (server.StartPull with its     *)
(* discovery and polling worker pools and the response sender) and of the  *)
(* two pipelines the workers invoke (snmp.Discovery, snmp.FetchSNMPData).  *)
(*                                                                         *)
(* Go buffered channels are sequences with a capacity; a goroutine blocked *)
(* on a channel operation is a disabled action.  A panic in any goroutine  *)
(* ends the process: the variable crashed records why, and no action is    *)
(* enabled afterwards.  A panic in StartPull itself first runs StartPull's *)
(* deferred calls (the three close() calls, last deferred first) while the *)
(* other goroutines keep running.                                          *)
(*                                                                         *)
(* JSON values are records [t, v]: t is the dynamic type a Go type         *)
(* assertion looks at ("absent" for a key that is not in the map).         *)
(*                                                                         *)
(* Spec is StartPull's process; FairSpec adds the scheduling of its        *)
(* goroutines.  SpecRep is the loop of one REQ/REP worker of the earlier   *)
(* server (startWorker), which answers each request on its own socket.     *)
(* SpecPipe is one call of a pipeline, device call by device call, for     *)
(* each version of Discovery and FetchSNMPData the repository holds.       *)
(* SpecFetch is the per-interface fetches of two polling jobs that run at  *)
(* the same time, and SpecDecode one decode of a device's response.        *)
(* SpecLoop is the loop of each server that answers on a REP socket, and    *)
(* SpecCollect one call of a getInterfaces that fetches in goroutines.     *)
(***************************************************************************)
EXTENDS Integers, Sequences, FiniteSets, TLC

\* ------------------------------------------------------------------ bounds

\* capacity of requestDiscoveryChan, requestPollingChan and responseChan
\* (50000 each in the code)
ChanCap == 1

\* size of the polling pool; the discovery pool is half of it (100 and 10 in
\* the code)
PoolSize == 2

\* number of job payloads the transport delivers in one run
MaxJobs == 2

\* number of interfaces a polled device has at most
MaxIfs == 3

\* ------------------------------------------------------------- JSON values

Absent == [t |-> "absent", v |-> ""]

S(x) == [t |-> "string", v |-> x]

N(x) == [t |-> "number", v |-> x]

IsString(val) == val.t = "string"

\* strings.ToLower on the strings the model sends as requestType
ToLower(s) ==
    CASE s = "Discovery" -> "discovery"
      [] s = "POLLING" -> "polling"
      [] s = "PollingKey" -> "pollingkey"
      [] s = "pollingKey" -> "pollingkey"
      [] s = "SNMP" -> "snmp"
      [] OTHER -> s

\* strings.TrimSpace on the strings the model sends
TrimSpace(s) == IF s = " " THEN "" ELSE s

\* ------------------------------------------------------ constants of the code

health_check == "health_check"

ok == "ok"

discovery == "discovery"

polling == "polling"

SNMPPlugin == "snmp"

Fail == "fail"

Success == "success"

FieldMissing == "field missing"

UnsupportedPlugin == "unsupported plugin type"

UnsupportedSNMP == "unsupported SNMP version"

SNMPConnectFail == "SNMP connection failed"

SNMPGetFail == "SNMP get request failed"

SystemNameNotFound == "system name not found"

\* ---------------------------------------------------------------- requests

\* the requestId the n-th payload carries (when it carries one)
IdStr(n) == ToString(n)

\* a well-formed job of the given requestType, the n-th payload
BaseReq(rt, n) ==
    [requestType |-> S(rt), ip |-> S("10.0.0.1"), port |-> N("161"),
     community |-> S("public"), version |-> S("2c"),
     pluginType |-> S(SNMPPlugin), requestId |-> S(IdStr(n))]

\* the JSON objects the transport may deliver as the n-th payload: a well-formed
\* job of each type, a type the router does not know, a discovery job without
\* ip and a polling job without requestId (both with the type in another case)
JobObjects(n) ==
    {BaseReq(rt, n) : rt \in {"discovery", "polling", "trap"}}
      \cup {[BaseReq("Discovery", n) EXCEPT !.ip = Absent],
            [BaseReq("POLLING", n) EXCEPT !.requestId = Absent]}

NoReq == [requestType |-> Absent, ip |-> Absent, port |-> Absent,
          community |-> Absent, version |-> Absent,
          pluginType |-> Absent, requestId |-> Absent]

\* a job payload: text that is not JSON, or a JSON object
Payloads(n) ==
    {[kind |-> "garbage", n |-> n, req |-> NoReq]}
      \cup {[kind |-> "json", n |-> n, req |-> r] : r \in JobObjects(n)}

\* the literal health_check token (it carries no number)
HealthPayload == [kind |-> "health", n |-> 0, req |-> NoReq]

NoPayload == [kind |-> "none", n |-> 0, req |-> NoReq]

\* ---------------------------------------------------------------- pipelines

NoData == [present |-> FALSE, systemName |-> "", error |-> ""]

\* what a pipeline leaves behind: the status, error and data keys it wrote into
\* reqData, or a panic.  fault is bookkeeping, not a key of reqData: the failure
\* the pipeline met ("none" when it met none).
Result(fault, status, error, data) ==
    [panic |-> FALSE, fault |-> fault, status |-> status, error |-> error, data |-> data]

Panic(fault) ==
    [panic |-> TRUE, fault |-> fault, status |-> "", error |-> "", data |-> NoData]

\* the protocolVersion switch of both pipelines
SupportedVersion(v) == v \in {"1", "2", "2c", "3"}

\* how the device answers a discovery job
DiscoveryDevices ==
    [connect : BOOLEAN, get : BOOLEAN, value : {"text", "integer"}]

\* how the device answers a polling job
PollingDevices == [connect : BOOLEAN, sysGet : BOOLEAN]

\* snmp.Discovery(reqData)
Discovery(req, dev) ==
    IF req.pluginType # S(SNMPPlugin)
    THEN Result("plugin", Fail, UnsupportedPlugin, NoData)
    ELSE IF ~IsString(req.ip) \/ req.port.t # "number" \/ ~IsString(req.community)
    THEN Panic("field")
    ELSE IF ~IsString(req.version)
    THEN Panic("field")
    ELSE IF ~SupportedVersion(req.version.v)
    THEN Result("version", Fail, UnsupportedSNMP, NoData)
    ELSE IF ~dev.connect
    THEN Result("connect", Fail, SNMPConnectFail, NoData)
    ELSE IF ~dev.get
    THEN Result("get", Fail, SNMPGetFail, NoData)
    ELSE IF dev.value \in {"text", "empty"}
    THEN Result("none", Success, "",
                [present |-> TRUE,
                 systemName |-> IF dev.value = "text" THEN "router-1" ELSE "",
                 error |-> ""])
    ELSE Result("value", Fail, SystemNameNotFound, NoData)

\* snmp.ValidateRequest(reqData): IP, PluginType and RequestID are non-blank
\* strings and Port exists
ValidateRequest(req) ==
    /\ \A f \in {req.ip, req.pluginType, req.requestId} :
          IsString(f) /\ TrimSpace(f.v) # ""
    /\ req.port.t # "absent"

\* snmp.FetchSNMPData(reqData)
FetchSNMPData(req, dev) ==
    IF ~ValidateRequest(req)
    THEN Result("field", Fail, FieldMissing, NoData)
    ELSE IF ~IsString(req.community) \/ ~IsString(req.version)
    THEN Panic("field")
    ELSE IF ~SupportedVersion(req.version.v)
    THEN Result("version", Fail, UnsupportedSNMP, NoData)
    ELSE IF ~dev.connect
    THEN Result("connect", Fail, "",
                [present |-> TRUE, systemName |-> "", error |-> SNMPConnectFail])
    ELSE IF ~dev.sysGet
    THEN Result("get", Success, "",
                [present |-> TRUE, systemName |-> "", error |-> SNMPConnectFail])
    ELSE Result("none", Success, "",
                [present |-> TRUE, systemName |-> "router-1", error |-> ""])

\* the reply a worker marshals: reqData with the keys the pipeline wrote
Envelope(job, res) ==
    [kind |-> "envelope", n |-> job.n, req |-> job.req,
     status |-> res.status, error |-> res.error, data |-> res.data]

\* the reply to a health check: the literal ok
OkReply ==
    [kind |-> ok, n |-> 0, req |-> NoReq, status |-> "", error |-> "", data |-> NoData]

NoResult == Result("none", "", "", NoData)

\* the reply of the REQ/REP worker; ran is bookkeeping: the pipeline it ran
RepReply(ran, error, status, message) ==
    [ran |-> ran, error |-> error, status |-> status, message |-> message]

NoRepReply == RepReply("none", "", "", "")

\* ------------------------------------------------- one run of a pipeline

\* One call of a pipeline followed call by call: each connect, get, walk and
\* close on the device session is a step.  The repository holds the pipelines
\* in several versions; variant names the one that runs.

\* snmp.Discovery(reqData) and snmp.FetchSNMPData(reqData), the pipelines the
\* workers of StartPull call
vDiscovery == "Discovery(reqData)"

vPolling == "FetchSNMPData(reqData)"

\* FetchSNMPData(reqData) as it was before getInterfaceIndexes: it takes the
\* number of interfaces from the system data
vPollingCount == "FetchSNMPData(reqData), counted"

\* Discovery(ip, community, version) and FetchSNMPData(ip, community, version),
\* the pipelines the REQ/REP workers call
vDiscoveryArgs == "Discovery(ip, community, version)"

vPollingArgs == "FetchSNMPData(ip, community, version)"

\* FetchSNMPData(ip, community, version) of package snmp at the root: it
\* fetches the interfaces in goroutines
vFetcher == "snmp.FetchSNMPData, concurrent"

Variants == {vDiscovery, vPolling, vPollingCount, vDiscoveryArgs, vPollingArgs, vFetcher}

DiscoveryVariants == {vDiscovery, vDiscoveryArgs}

\* int(v) and uint16(v) of a float64, on the ports the model sends: the
\* fraction is cut off
IntOf(text) == IF text = "161.5" THEN "161" ELSE text

\* a Go int in reqData; json.Marshal writes it as a JSON number
GoInt(x) == [t |-> "int", v |-> x]

\* the job object after ValidateRequest(reqData): on its way through the
\* required fields (ip, pluginType, requestId, port, in this order) it stores
\* int(v) for a port that is a float64
Validated(req) ==
    IF ValidateRequest(req) /\ req.port.t = "number"
    THEN [req EXCEPT !.port = GoInt(IntOf(req.port.v))]
    ELSE req

\* the pipelines that are handed the job object reqData; the others are
\* handed ip, community and version only
JobObjectVariants == {vDiscovery, vPolling, vPollingCount}

\* what of the job req the caller hands to pipeline v
Handed(v, req) ==
    IF v \in JobObjectVariants THEN req
    ELSE [NoReq EXCEPT !.ip = req.ip, !.community = req.community,
                       !.version = req.version]

PollingVariants == Variants \ DiscoveryVariants

\* the requests a pipeline may be called with
PipeRequests ==
    [requestType : {S("polling")},
     ip : {S("10.0.0.1"), S(" "), Absent},
     port : {N("161"), N("1161"), N("161.5"), Absent},
     community : {S("public"), Absent},
     version : {S("2c"), S("4"), Absent},
     pluginType : {S(SNMPPlugin), S("linux")},
     requestId : {S("1"), Absent}]

\* the elements of a set of numbers in ascending order
RECURSIVE Ascending(_)
Ascending(set) ==
    IF set = {} THEN <<>>
    ELSE LET least == CHOOSE x \in set : \A y \in set : x <= y
         IN <<least>> \o Ascending(set \ {least})

\* what the walk of the interface table may return: gosnmp walks in
\* ascending OID order
IndexLists == {Ascending(set) : set \in SUBSET (1 .. MaxIfs)}

Range(seq) == {seq[i] : i \in 1 .. Len(seq)}

NoPipeData == [present |-> FALSE, systemName |-> "", error |-> ""]

\* the pipeline before it is called
NoPipe ==
    [variant |-> "none", pc |-> "idle", req |-> NoReq, reqData |-> NoReq,
     session |-> "none", port |-> "", deferred |-> FALSE, calls |-> <<>>,
     closedUnopened |-> FALSE, panicked |-> FALSE,
     status |-> "", error |-> "", detail |-> FALSE, data |-> NoPipeData,
     connectFailed |-> FALSE, scalarFailed |-> FALSE, oddUptime |-> FALSE,
     device |-> {}, walk |-> "none", count |-> -1,
     enumerated |-> <<>>, todo |-> {}, failed |-> {},
     hasInterfaces |-> FALSE, interfaces |-> <<>>, interfaceError |-> ""]

\* ------------------------------------ the interface fetches of two jobs

\* getInterfaces of config.go: a goroutine for each interface, a mutex of its
\* own, the records collected from a channel
vChannel == "getInterfaces, goroutines and a channel"

\* the versions of getInterfaces: the loop over the indexes, the goroutines
\* under the package's mutexes, the goroutines under a mutex of the call
FetchVariants == {vPolling, vFetcher, vChannel}

\* two polling jobs, each on a worker of its own and with a session of its own
Jobs == {"job a", "job b"}

mutexForSnmp == "mutexForSnmp"

\* the mutexes there are: the one of package snmp and, for each call of
\* getInterfaces, its local one
Mutexes == {mutexForSnmp} \cup Jobs

\* nobody holds the mutex
Unlocked == <<>>

\* a fetch is "new" (not started), "started" (its goroutine runs and waits for
\* the mutex), "get" (its request is out on the session and the response is
\* not yet in) or "done"
NoFetch ==
    [variant |-> "none",
     count |-> [j \in Jobs |-> 0],
     phase |-> [j \in Jobs |-> [i \in 1 .. MaxIfs |-> "new"]],
     holder |-> [m \in Mutexes |-> Unlocked]]

\* ------------------------------------------- decoding what a device sent

\* A value of a response, as gosnmp hands it over in variable.Value: nil, a
\* []byte (t = "bytes", v the bytes), a Go string (an object identifier) or a
\* number of type t ("int", "uint", "uint32").

Nil == "nil"

NilValue == [t |-> "nil", v |-> 0]

Bytes(bs) == [t |-> "bytes", v |-> bs]

Number(type, n) == [t |-> type, v |-> n]

\* string(bytes), for the characters the devices here use
RECURSIVE String(_)
String(bs) ==
    LET Chr(b) == CASE b = 48 -> "0" [] b = 49 -> "1" [] b = 97 -> "a"
                    [] b = 98 -> "b" [] b = 101 -> "e" [] b = 104 -> "h"
                    [] b = 108 -> "l" [] b = 114 -> "r" [] b = 116 -> "t"
    IN IF bs = <<>> THEN "" ELSE Chr(Head(bs)) \o String(Tail(bs))

\* fmt.Sprintf("%d", n)
RECURSIVE Dec(_)
Dec(n) ==
    LET Digit(d) == <<"0", "1", "2", "3", "4", "5", "6", "7", "8", "9">>[d + 1]
    IN IF n < 10 THEN Digit(n) ELSE Dec(n \div 10) \o Digit(n % 10)

\* util.SNMPOids
SNMPOids ==
    ("1.3.6.1.2.1.1.5.0" :> "system.name")
      @@ ("1.3.6.1.2.1.1.1.0" :> "system.description")
      @@ ("1.3.6.1.2.1.1.6.0" :> "system.location")
      @@ ("1.3.6.1.2.1.1.2.0" :> "system.objectId")
      @@ ("1.3.6.1.2.1.1.3.0" :> "system.uptime")
      @@ ("1.3.6.1.2.1.2.1.0" :> "system.interfaces")

physicalAddress == "interface.physical.address"

\* util.InterfaceOids: four of its fifteen columns
InterfaceOids ==
    ("1.3.6.1.2.1.2.2.1.1" :> "interface.index")
      @@ ("1.3.6.1.2.1.31.1.1.1.1" :> "interface.name")
      @@ ("1.3.6.1.2.1.2.2.1.5" :> "interface.speed")
      @@ ("1.3.6.1.2.1.2.2.1.6" :> physicalAddress)

\* the orders `for oid := range table` may visit a map in: Go leaves the
\* order of a map iteration open, and it differs from one loop to the next
Orders(table) ==
    {order \in [1 .. Cardinality(DOMAIN table) -> DOMAIN table] :
        \A i, j \in DOMAIN order : order[i] = order[j] => i = j}

\* a faulty zip: the field names taken in the reverse of the request's order
ZipField_Reversed(table, order, i) == table[order[Len(order) + 1 - i]]

\* the field the i-th value of a response is stored under: the name of the
\* i-th OID of the request, table[oidArray[i]] or fields[i]
ZipField(table, order, i) == table[order[i]]

\* what a device may answer to the get of the system OIDs: its values, by OID
SystemDevices ==
    LET device ==
          ("1.3.6.1.2.1.1.5.0" :> Bytes(<<114, 49>>))
            @@ ("1.3.6.1.2.1.1.1.0" :> Bytes(<<108, 97, 98>>))
            @@ ("1.3.6.1.2.1.1.6.0" :> Bytes(<<>>))
            @@ ("1.3.6.1.2.1.1.2.0" :> S(".1.3.6.1.4.1.9"))
            @@ ("1.3.6.1.2.1.1.3.0" :> Number("uint32", 864005900))
            @@ ("1.3.6.1.2.1.2.1.0" :> Number("int", 3))
    IN {device} \cup {[device EXCEPT ![oid] = NilValue] : oid \in DOMAIN device}

\* the versions of fetchSNMPSystemData: the one that keeps a value's type
\* and the one that returns a map of strings
SystemVariants == {vPolling, vChannel}

\* fetchSNMPSystemData(g): the OIDs are requested in the order the range over
\* the table gave, the device answers in the order of the request, and each
\* value is stored under its field, decoded by its shape
fetchSNMPSystemData(v, order, device) ==
    LET response == [i \in DOMAIN order |-> device[order[i]]]
        decode(val) ==
          IF val.t = "nil" THEN S(Nil)
          ELSE IF val.t = "bytes" THEN S(String(val.v))
          ELSE IF v = vPolling \/ val.t = "string" THEN val
          ELSE S(Dec(val.v))
        slot(f) == CHOOSE i \in DOMAIN order : ZipField(SNMPOids, order, i) = f
    IN [f \in {ZipField(SNMPOids, order, i) : i \in DOMAIN order} |->
          decode(response[slot(f)])]

\* strings.Join(strs, sep)
RECURSIVE Join(_, _)
Join(strs, sep) ==
    IF strs = <<>> THEN ""
    ELSE IF Len(strs) = 1 THEN strs[1]
    ELSE strs[1] \o sep \o Join(Tail(strs), sep)

\* the versions of getInterface: the one that formats the physical address
\* with colons, the one that formats it with spaces, and the one of the
\* goroutines, which returns a map of strings
InterfaceVariants == {vPolling, vPollingCount, vChannel}

\* the text a version of getInterface makes of the bytes of a physical
\* address: hex.EncodeToString gives two lower-case digits for each byte
FormatMac(v, bytes) ==
    LET digit(d) == <<"0", "1", "2", "3", "4", "5", "6", "7", "8", "9",
                      "a", "b", "c", "d", "e", "f">>[d + 1]
        upper(c) == CASE c = "a" -> "A" [] c = "b" -> "B" [] c = "c" -> "C"
                      [] c = "d" -> "D" [] c = "e" -> "E" [] c = "f" -> "F"
                      [] OTHER -> c
        mac == [k \in 1 .. 2 * Len(bytes) |->
                  IF k % 2 = 1 THEN digit(bytes[(k + 1) \div 2] \div 16)
                  ELSE digit(bytes[k \div 2] % 16)]
        formattedMac == [k \in DOMAIN mac |-> upper(mac[k])]
        pair(k) == formattedMac[2 * k - 1] \o formattedMac[2 * k]
    IN CASE v = vPolling ->
              IF Len(formattedMac) >= 12
              THEN Join([k \in 1 .. 6 |-> pair(k)], ":")
              ELSE Join(formattedMac, "")
         [] v = vPollingCount -> Join([k \in 1 .. Len(bytes) |-> pair(k)], " ")
         [] OTHER -> Join(mac, "")

\* a faulty record: an attribute without a value is stored as "nil"
Stored_NilSentinel(response, k) == TRUE

\* the values of a response that getInterface stores in the record: those
\* that are not nil
Stored(response, k) == response[k].t # "nil"

\* what a device may answer to the get of the columns of one interface
InterfaceDevices ==
    {("1.3.6.1.2.1.2.2.1.1" :> Number("int", 2))
       @@ ("1.3.6.1.2.1.31.1.1.1.1" :> name)
       @@ ("1.3.6.1.2.1.2.2.1.5" :> speed)
       @@ ("1.3.6.1.2.1.2.2.1.6" :> address) :
         name \in {Bytes(<<101, 116, 104, 48>>), NilValue},
         speed \in {Number("uint", 1000), NilValue},
         address \in {Bytes(<<170, 187, 204, 0, 17, 34>>), Bytes(<<170, 187, 204>>),
                      Bytes(<<0, 17, 34, 51, 68, 85, 102, 119>>), Bytes(<<>>),
                      NilValue}}

\* getInterface(index, g): the columns are requested in the order the range
\* over the table gave; the record holds the index and, under its field, each
\* value of the response
getInterface(v, order, device, index) ==
    LET response == [k \in DOMAIN order |-> device[order[k]]]
        decode(field, val) ==
          IF val.t = "nil" THEN S(Nil)
          ELSE IF val.t = "bytes"
          THEN IF field = physicalAddress THEN S(FormatMac(v, val.v))
               ELSE S(String(val.v))
          ELSE IF v = vChannel THEN S(Dec(val.v))
          ELSE val
        stored == {k \in DOMAIN order : Stored(response, k)}
        slot(f) == CHOOSE k \in stored : ZipField(InterfaceOids, order, k) = f
    IN [f \in {"index"} \cup {ZipField(InterfaceOids, order, k) : k \in stored} |->
          IF f = "index" THEN S(Dec(index)) ELSE decode(f, response[slot(f)])]

\* a faulty conversion: the ticks taken for milliseconds
UptimeSeconds_Milliseconds(ticks) == ticks \div 1000

\* uptimeSeconds := uptime / 100: the ticks are hundredths of a second
UptimeSeconds(ticks) == ticks \div 100

\* a faulty split, one that leaves the days in the hours
UptimeFields_DaysInHours(uptimeSeconds) ==
    [days |-> uptimeSeconds \div (24 * 3600),
     hours |-> uptimeSeconds \div 3600,
     minutes |-> (uptimeSeconds % 3600) \div 60,
     seconds |-> (uptimeSeconds % 3600) % 60]

\* days, hours, minutes and seconds as FetchSNMPData takes them out of
\* uptimeSeconds, one division and one remainder after the other
UptimeFields(uptimeSeconds) ==
    LET inDay == uptimeSeconds % (24 * 3600)
    IN [days |-> uptimeSeconds \div (24 * 3600),
        hours |-> inDay \div 3600,
        minutes |-> (inDay % 3600) \div 60,
        seconds |-> (inDay % 3600) % 60]

\* fmt.Sprintf("Uptime: %d days, %02d hours, %02d minutes, %02d seconds", ...)
UptimeSprintf(f) ==
    LET Pad2(n) == IF n < 10 THEN "0" \o Dec(n) ELSE Dec(n)
    IN "Uptime: " \o Dec(f.days) \o " days, " \o Pad2(f.hours) \o " hours, "
         \o Pad2(f.minutes) \o " minutes, " \o Pad2(f.seconds) \o " seconds"

\* the uptime text FetchSNMPData makes of the tick count
UptimeText(ticks) == UptimeSprintf(UptimeFields(UptimeSeconds(ticks)))

\* a uint32 in two 16-bit halves, for the tick counts from 2^31 on, which are
\* no integers of the model checker: the value is hi * 65536 + lo
Halves(hi, lo) == [hi |-> hi, lo |-> lo]

\* uptimeSeconds := uptime / 100 on a tick count in halves: the long
\* division, half by half
UptimeSecondsOfHalves(u) ==
    (u.hi \div 100) * 65536 + ((u.hi % 100) * 65536 + u.lo) \div 100

\* tick counts of a uint32 counter
Ticks == {0, 99, 100, 5999, 6000, 360000, 8640000, 864000000, 864005900,
          2147483647}

\* tick counts of the upper half of the uint32 range: 2^31, 3000000000,
\* 4294967199, 4294967200 and 2^32 - 1
HighTicks == {Halves(32768, 0), Halves(45776, 24064), Halves(65535, 65439),
              Halves(65535, 65440), Halves(65535, 65535)}

\* nothing was decoded yet
NoDecode == [op |-> "none"]

\* --------------------------------------------- the loops on a REP socket

\* The servers that answer on a REP socket: each receives a request, handles
\* it and is to send one reply.  A REP socket takes Recv and Send in turns
\* only: a Recv while a reply is due fails.

\* StartZMQServer of handler/zmqhandler.go, startWorker of handler/zmq.go, of
\* server/server.go and of part_003
vStartZMQServer == "StartZMQServer"

vWorkerOfHandler == "startWorker, handler"

vWorkerOfServer == "startWorker, server"

vWorkerOfRouter == "startWorker, router"

LoopVariants == {vStartZMQServer, vWorkerOfHandler, vWorkerOfServer, vWorkerOfRouter}

\* a request in which every value is a string
LoopReq(rt) ==
    [requestType |-> S(rt), ip |-> S("10.0.0.1"), port |-> Absent,
     community |-> S("public"), version |-> S("2c"),
     pluginType |-> S(SNMPPlugin), requestId |-> S("1")]

\* what a client may send to the REP socket: the health check, text that is
\* not JSON, jobs of each type, jobs without ip, without requestType or with
\* another plugin, and a job whose port is a number
LoopPayloads ==
    {HealthPayload, [kind |-> "garbage", n |-> 0, req |-> NoReq]}
      \cup {[kind |-> "json", n |-> 0, req |-> r] :
              r \in {LoopReq(rt) : rt \in {"discovery", "polling", "trap"}}
                      \cup {[LoopReq("polling") EXCEPT !.ip = Absent],
                            [LoopReq("polling") EXCEPT !.requestType = Absent],
                            [LoopReq("discovery") EXCEPT !.pluginType = S("linux")],
                            [LoopReq("polling") EXCEPT !.port = N("161")]}}

\* how one pass of a loop ends: the branch it took, the number of Send calls
\* it made, and whether it panicked
Pass(branch, sends) == [branch |-> branch, sends |-> sends, panic |-> FALSE]

PassPanic(branch) == [branch |-> branch, sends |-> 0, panic |-> TRUE]

NoPass == Pass("none", 0)

\* the loop before its first Recv
NoSock ==
    [variant |-> "none", pc |-> "recv", due |-> FALSE, recvs |-> 0,
     req |-> NoPayload, last |-> NoPass, refused |-> FALSE]

\* ------------------------------------- one call of a concurrent collector

\* getInterfaces of config.go (vChannel) and GetInterfaces of snmpfetcher.go
\* (vFetcher) start a goroutine for each index 1 .. numInterfaces and gather
\* one record from each: over a buffered channel that a further goroutine
\* closes after wg.Wait(), or by appends to a shared slice under mutexForData
\* with the caller in wg.Wait().
CollectVariants == {vFetcher, vChannel}

\* the record getInterface hands over for index i: with an Error key when the
\* fetch failed
InterfaceRecord(i, fetched) == [index |-> i, error |-> ~fetched]

\* the collector before it is called
NoCollect ==
    [variant |-> "none", numInterfaces |-> 0, main |-> "idle", spawned |-> 0,
     wg |-> 0, phase |-> [i \in 1 .. MaxIfs |-> "new"],
     fetched |-> [i \in 1 .. MaxIfs |-> FALSE],
     snmp |-> 0, mutexForData |-> 0,
     slice |-> [i \in 1 .. MaxIfs |-> <<>>],
     ch |-> <<>>, closed |-> FALSE, interfacesData |-> <<>>]

\* ------------------------------------------------------------------- state

VARIABLES
    inbox,                  \* the payload waiting at the PULL socket, if any
    arrived,                \* number of job payloads the transport has delivered
    routerPc,               \* where StartPull's loop is
    routerJob,              \* the payload StartPull is blocked sending
    requestDiscoveryChan,   \* buffered channel of discovery jobs
    requestPollingChan,     \* buffered channel of polling jobs
    responseChan,           \* buffered channel of replies
    wpc,                    \* where each worker is
    wjob,                   \* the job each worker holds
    wres,                   \* what the pipeline of each worker returned
    senderPc,               \* where the response sender is
    crashed,                \* "no", or why the process ended
    repPc,                  \* where the REQ/REP worker's loop is
    repReq,                 \* the request the REQ/REP worker received last
    repReply,               \* the reply the REQ/REP worker sent to it
    pipe,                   \* one run of a pipeline, call by call
    fetch,                  \* the per-interface fetches of two polling jobs
    dec,                    \* one decode: what was decoded, and the result
    sock,                   \* the loop of a server on its REP socket
    coll                    \* one call of a concurrent getInterfaces

vars == <<inbox, arrived, routerPc, routerJob, requestDiscoveryChan,
          requestPollingChan, responseChan, wpc, wjob, wres, senderPc, crashed,
          repPc, repReq, repReply, pipe, fetch, dec, sock, coll>>

\* the state of StartPull's process and the state of the REQ/REP worker
pullVars == <<inbox, arrived, routerPc, routerJob, requestDiscoveryChan,
              requestPollingChan, responseChan, wpc, wjob, wres, senderPc, crashed>>

repVars == <<repPc, repReq, repReply>>

numDiscoveryWorkers == PoolSize \div 2

numPollingWorkers == PoolSize

DiscoveryWorkers == 1 .. numDiscoveryWorkers

PollingWorkers == (numDiscoveryWorkers + 1) .. (numDiscoveryWorkers + numPollingWorkers)

Workers == DiscoveryWorkers \cup PollingWorkers

\* StartPull's deferred close(responseChan), close(requestPollingChan) and
\* close(requestDiscoveryChan) run in this order once StartPull panics
ResponseClosed == routerPc \in {"defer2", "defer1", "exit"}

PollingClosed == routerPc \in {"defer1", "exit"}

DiscoveryClosed == routerPc = "exit"

Running == crashed = "no"

\* job payloads are numbered in the order the transport delivers them
PayloadNumbers == 1 .. MaxJobs

NextNumber == arrived + 1

Init ==
    /\ inbox = <<>>
    /\ arrived = 0
    /\ routerPc = "recv"
    /\ routerJob = NoPayload
    /\ requestDiscoveryChan = <<>>
    /\ requestPollingChan = <<>>
    /\ responseChan = <<>>
    /\ wpc = [w \in Workers |-> "idle"]
    /\ wjob = [w \in Workers |-> NoPayload]
    /\ wres = [w \in Workers |-> NoResult]
    /\ senderPc = "range"
    /\ crashed = "no"
    /\ repPc = "recv"
    /\ repReq = NoPayload
    /\ repReply = NoRepReply
    /\ pipe = NoPipe
    /\ fetch = NoFetch
    /\ dec = NoDecode
    /\ sock = NoSock
    /\ coll = NoCollect

\* a faulty send, one that never waits for room
CanSend_NeverBlocks(ch, cap) == TRUE

\* a send on a buffered channel of capacity cap goes through when there is room
CanSend(ch, cap) == Len(ch) < cap

\* ------------------------------------------------------------------ router

\* what one pass of StartPull's loop does with a payload: "health" (reply ok),
\* "enqD" / "enqP" (send on a job channel), "drop" (the default branch: a log
\* line) or "panic" (the type assertion on reqData[requestType] fails)
Route(p) ==
    IF p.kind = "health" THEN "health"
    ELSE IF p.kind # "json" \/ ~IsString(p.req.requestType) THEN "panic"
    ELSE IF ToLower(p.req.requestType.v) = discovery THEN "enqD"
    ELSE IF ToLower(p.req.requestType.v) = polling THEN "enqP"
    ELSE "drop"

\* one pass of StartPull's loop on payload p; a channel send that finds no room
\* leaves StartPull blocked on that send
Handle(p) ==
    LET r == Route(p)
    IN CASE r = "health" ->
              IF CanSend(responseChan, ChanCap)
              THEN /\ responseChan' = Append(responseChan, OkReply)
                   /\ UNCHANGED <<routerPc, routerJob, requestDiscoveryChan,
                                  requestPollingChan>>
              ELSE /\ routerPc' = "health"
                   /\ routerJob' = p
                   /\ UNCHANGED <<responseChan, requestDiscoveryChan,
                                  requestPollingChan>>
         [] r = "enqD" ->
              IF CanSend(requestDiscoveryChan, ChanCap)
              THEN /\ requestDiscoveryChan' = Append(requestDiscoveryChan, p)
                   /\ UNCHANGED <<routerPc, routerJob, responseChan,
                                  requestPollingChan>>
              ELSE /\ routerPc' = "enqD"
                   /\ routerJob' = p
                   /\ UNCHANGED <<responseChan, requestDiscoveryChan,
                                  requestPollingChan>>
         [] r = "enqP" ->
              IF CanSend(requestPollingChan, ChanCap)
              THEN /\ requestPollingChan' = Append(requestPollingChan, p)
                   /\ UNCHANGED <<routerPc, routerJob, responseChan,
                                  requestDiscoveryChan>>
              ELSE /\ routerPc' = "enqP"
                   /\ routerJob' = p
                   /\ UNCHANGED <<responseChan, requestDiscoveryChan,
                                  requestPollingChan>>
         [] r = "drop" ->
              UNCHANGED <<routerPc, routerJob, responseChan,
                          requestDiscoveryChan, requestPollingChan>>
         [] r = "panic" ->
              /\ routerPc' = "defer3"
              /\ UNCHANGED <<routerJob, responseChan, requestDiscoveryChan,
                             requestPollingChan>>

\* the transport delivers payload p to the PULL socket: StartPull, when it is
\* waiting in pull.Recv, receives it and acts on it; otherwise p waits
Deliver(p) ==
    /\ inbox = <<>>
    /\ IF routerPc = "recv"
       THEN /\ Handle(p)
            /\ UNCHANGED inbox
       ELSE /\ inbox' = <<p>>
            /\ UNCHANGED <<routerPc, routerJob, responseChan, requestDiscoveryChan,
                           requestPollingChan>>
    /\ UNCHANGED <<wpc, wjob, wres, senderPc, crashed>>
    /\ UNCHANGED <<repVars, pipe, fetch, dec, sock, coll>>

\* the next job payload arrives
Arrive(p) ==
    /\ Running
    /\ arrived < MaxJobs
    /\ arrived' = arrived + 1
    /\ Deliver(p)

\* a health check is on its way through the process
ProbePending ==
    \/ inbox # <<>> /\ Head(inbox).kind = "health"
    \/ routerPc = "health"
    \/ \E i \in 1 .. Len(responseChan) : responseChan[i].kind = ok

\* a health check arrives: the prober sends one once the last one is answered
ArriveHealth ==
    /\ Running
    /\ ~ProbePending
    /\ UNCHANGED arrived
    /\ Deliver(HealthPayload)

\* StartPull is back in pull.Recv and receives the payload that waited
RouterRecv ==
    /\ Running
    /\ routerPc = "recv"
    /\ inbox # <<>>
    /\ inbox' = <<>>
    /\ Handle(Head(inbox))
    /\ UNCHANGED <<arrived, wpc, wjob, wres, senderPc, crashed>>
    /\ UNCHANGED <<repVars, pipe, fetch, dec, sock, coll>>

\* a blocked send of StartPull goes through once the channel has room
RouterUnblock ==
    /\ Running
    /\ \/ /\ routerPc = "health"
          /\ CanSend(responseChan, ChanCap)
          /\ responseChan' = Append(responseChan, OkReply)
          /\ UNCHANGED <<requestDiscoveryChan, requestPollingChan>>
       \/ /\ routerPc = "enqD"
          /\ CanSend(requestDiscoveryChan, ChanCap)
          /\ requestDiscoveryChan' = Append(requestDiscoveryChan, routerJob)
          /\ UNCHANGED <<responseChan, requestPollingChan>>
       \/ /\ routerPc = "enqP"
          /\ CanSend(requestPollingChan, ChanCap)
          /\ requestPollingChan' = Append(requestPollingChan, routerJob)
          /\ UNCHANGED <<responseChan, requestDiscoveryChan>>
    /\ routerPc' = "recv"
    /\ routerJob' = NoPayload
    /\ UNCHANGED <<inbox, arrived, wpc, wjob, wres, senderPc, crashed>>
    /\ UNCHANGED <<repVars, pipe, fetch, dec, sock, coll>>

\* StartPull is panicking: its deferred closes run one by one, then the
\* process ends
RouterDefer ==
    /\ Running
    /\ \/ /\ routerPc = "defer3"
          /\ routerPc' = "defer2"
          /\ UNCHANGED crashed
       \/ /\ routerPc = "defer2"
          /\ routerPc' = "defer1"
          /\ UNCHANGED crashed
       \/ /\ routerPc = "defer1"
          /\ routerPc' = "exit"
          /\ crashed' = "router panic"
    /\ UNCHANGED <<inbox, arrived, routerJob, requestDiscoveryChan,
                   requestPollingChan, responseChan, wpc, wjob, wres, senderPc>>
    /\ UNCHANGED <<repVars, pipe, fetch, dec, sock, coll>>

\* ----------------------------------------------------------------- workers

\* the job channel a worker ranges over
QueueOf(w) == IF w \in DiscoveryWorkers THEN requestDiscoveryChan ELSE requestPollingChan

QueueClosed(w) == IF w \in DiscoveryWorkers THEN DiscoveryClosed ELSE PollingClosed

PoolOf(w) == IF w \in DiscoveryWorkers THEN DiscoveryWorkers ELSE PollingWorkers

\* a faulty receive: the device calls of one pool are serialised by a lock that
\* a worker takes before it receives
CanTake_PoolLock(w) ==
    /\ wpc[w] = "idle"
    /\ QueueOf(w) # <<>>
    /\ \A v \in PoolOf(w) : wpc[v] # "run"

\* a worker's receive: it waits on nothing but its own channel
CanTake(w) == wpc[w] = "idle" /\ QueueOf(w) # <<>>

\* the pipeline a worker invokes
Pipeline(w, req, dev) ==
    IF w \in DiscoveryWorkers THEN Discovery(req, dev) ELSE FetchSNMPData(req, dev)

DevicesOf(w) == IF w \in DiscoveryWorkers THEN DiscoveryDevices ELSE PollingDevices

\* discoveryWorker / pollingWorker: the range loop receives the next job
WorkerTake(w) ==
    /\ Running
    /\ CanTake(w)
    /\ wjob' = [wjob EXCEPT ![w] = Head(QueueOf(w))]
    /\ wpc' = [wpc EXCEPT ![w] = "run"]
    /\ IF w \in DiscoveryWorkers
       THEN /\ requestDiscoveryChan' = Tail(requestDiscoveryChan)
            /\ UNCHANGED requestPollingChan
       ELSE /\ requestPollingChan' = Tail(requestPollingChan)
            /\ UNCHANGED requestDiscoveryChan
    /\ UNCHANGED <<inbox, arrived, routerPc, routerJob, responseChan, wres,
                   senderPc, crashed>>
    /\ UNCHANGED <<repVars, pipe, fetch, dec, sock, coll>>

\* the range loop ends when the channel is closed and drained
WorkerExit(w) ==
    /\ Running
    /\ wpc[w] = "idle"
    /\ QueueOf(w) = <<>>
    /\ QueueClosed(w)
    /\ wpc' = [wpc EXCEPT ![w] = "exited"]
    /\ UNCHANGED <<inbox, arrived, routerPc, routerJob, requestDiscoveryChan,
                   requestPollingChan, responseChan, wjob, wres, senderPc, crashed>>
    /\ UNCHANGED <<repVars, pipe, fetch, dec, sock, coll>>

\* respChan <- string(jsonData) by worker w, which holds result res: a send on
\* a closed channel panics, a send that finds no room leaves w blocked on it
Reply(w, res) ==
    IF ResponseClosed
    THEN /\ crashed' = "send on closed channel"
         /\ wres' = [wres EXCEPT ![w] = res]
         /\ wpc' = [wpc EXCEPT ![w] = "send"]
         /\ UNCHANGED <<responseChan, wjob>>
    ELSE IF CanSend(responseChan, ChanCap)
    THEN /\ responseChan' = Append(responseChan, Envelope(wjob[w], res))
         /\ wpc' = [wpc EXCEPT ![w] = "idle"]
         /\ wjob' = [wjob EXCEPT ![w] = NoPayload]
         /\ wres' = [wres EXCEPT ![w] = NoResult]
         /\ UNCHANGED crashed
    ELSE /\ wres' = [wres EXCEPT ![w] = res]
         /\ wpc' = [wpc EXCEPT ![w] = "send"]
         /\ UNCHANGED <<responseChan, wjob, crashed>>

\* the worker unmarshals the job, runs its pipeline against the device and
\* sends the marshalled reqData; a panic inside the pipeline ends the process
WorkerRun(w, dev) ==
    /\ Running
    /\ wpc[w] = "run"
    /\ LET res == Pipeline(w, wjob[w].req, dev)
       IN IF res.panic
          THEN /\ crashed' = "pipeline panic"
               /\ wres' = [wres EXCEPT ![w] = res]
               /\ UNCHANGED <<wpc, wjob, responseChan>>
          ELSE Reply(w, res)
    /\ UNCHANGED <<inbox, arrived, routerPc, routerJob, requestDiscoveryChan,
                   requestPollingChan, senderPc>>
    /\ UNCHANGED <<repVars, pipe, fetch, dec, sock, coll>>

\* a worker blocked on its send to responseChan goes on
WorkerSend(w) ==
    /\ Running
    /\ wpc[w] = "send"
    /\ ResponseClosed \/ CanSend(responseChan, ChanCap)
    /\ Reply(w, wres[w])
    /\ UNCHANGED <<inbox, arrived, routerPc, routerJob, requestDiscoveryChan,
                   requestPollingChan, senderPc>>
    /\ UNCHANGED <<repVars, pipe, fetch, dec, sock, coll>>

\* ------------------------------------------------------------------ sender

\* the response goroutine takes the next reply and calls push.Send(resp,
\* DONTWAIT); the reply leaves the process, or the send fails and is only
\* logged: either way the goroutine goes on with its loop
Sender ==
    /\ Running
    /\ senderPc = "range"
    /\ responseChan # <<>>
    /\ responseChan' = Tail(responseChan)
    /\ UNCHANGED <<inbox, arrived, routerPc, routerJob, requestDiscoveryChan,
                   requestPollingChan, wpc, wjob, wres, senderPc, crashed>>
    /\ UNCHANGED <<repVars, pipe, fetch, dec, sock, coll>>

\* its range loop ends when responseChan is closed and drained
SenderExit ==
    /\ Running
    /\ senderPc = "range"
    /\ responseChan = <<>>
    /\ ResponseClosed
    /\ senderPc' = "exited"
    /\ UNCHANGED <<inbox, arrived, routerPc, routerJob, requestDiscoveryChan,
                   requestPollingChan, responseChan, wpc, wjob, wres, crashed>>
    /\ UNCHANGED <<repVars, pipe, fetch, dec, sock, coll>>

\* --------------------------------------------------- the REQ/REP worker

\* An earlier server of the plugin answers each request on a REP socket: one
\* worker's loop receives a request, handles it and sends the reply.

invalidRequest == "Invalid request format"

errorMissingField == "Missing or null field"

snmpKey == "snmp"

discoveryKey == "discovery"

pollingKey == "pollingKey"

\* the keys validateRequest looks for
requestKeys == {"ip", "community", "version", "pluginType", "requestType"}

\* the requests a client may send to the REP socket
RepRequests ==
    [requestType : {S("discovery"), S("Discovery"), S("polling"), S("POLLING"),
                    S("pollingKey"), S("trap"), Absent},
     ip : {S("10.0.0.1"), S(""), Absent},
     port : {N("161"), Absent},
     community : {S("public"), Absent},
     version : {S("2c"), S("9")},
     pluginType : {S(SNMPPlugin), S("SNMP"), S("linux")},
     requestId : {Absent}]

RepPayloads ==
    {[kind |-> "garbage", n |-> 0, req |-> NoReq]}
      \cup {[kind |-> "json", n |-> 0, req |-> r] : r \in RepRequests}

\* json.Unmarshal into a map[string]string: the text is a JSON object and every
\* value in it is a string
Unmarshals(p) ==
    /\ p.kind = "json"
    /\ \A k \in DOMAIN p.req : p.req[k].t # "number"

\* validateRequest(reqData): the keys that are missing or empty
validateRequest(req) == {k \in requestKeys : req[k].t = "absent" \/ req[k].v = ""}

\* one pass of startWorker's loop on payload p, the device answering or not
startWorker(p, answers) ==
    IF ~Unmarshals(p)
    THEN RepReply("none", invalidRequest, "", "")
    ELSE IF validateRequest(p.req) # {}
    THEN RepReply("none", errorMissingField, "", "")
    ELSE IF ToLower(p.req.pluginType.v) # snmpKey
    THEN RepReply("none", "", Fail, "System type not supported")
    ELSE IF ToLower(p.req.requestType.v) = discoveryKey
    THEN RepReply(discovery, "", IF answers THEN Success ELSE Fail, "")
    ELSE IF ToLower(p.req.requestType.v) = pollingKey
    THEN RepReply(polling, "", IF answers THEN Success ELSE Fail, "")
    ELSE RepReply("none", "", Fail, "Request type not supported currently")

\* worker.Recv(0)
RepRecv(p) ==
    /\ repPc = "recv"
    /\ repPc' = "handle"
    /\ repReq' = p
    /\ repReply' = NoRepReply
    /\ UNCHANGED <<pullVars, pipe, fetch, dec, sock, coll>>

\* the rest of the pass: the worker handles the request and sends the reply
RepSend(answers) ==
    /\ repPc = "handle"
    /\ repPc' = "recv"
    /\ repReply' = startWorker(repReq, answers)
    /\ UNCHANGED repReq
    /\ UNCHANGED <<pullVars, pipe, fetch, dec, sock, coll>>

\* ------------------------------------------- the steps of a pipeline run

\* where the code before g.Connect() leaves the call: "field" (the missing
\* field return), "plugin", "version" (the default branch of the version
\* switch when it returns), "panic" (a failed type assertion), "defer" (the
\* defer of g.Conn.Close() before Connect) or "connect"
Entry(v, req) ==
    CASE v = vDiscovery ->
           IF req.pluginType # S(SNMPPlugin) THEN "plugin"
           ELSE IF \/ ~IsString(req.ip)
                   \/ req.port.t # "number"
                   \/ ~IsString(req.community)
                   \/ ~IsString(req.version) THEN "panic"
           ELSE IF ~SupportedVersion(req.version.v) THEN "version"
           ELSE "connect"
      [] v = vPolling ->
           IF ~ValidateRequest(req) THEN "field"
           ELSE IF ~IsString(req.community) \/ ~IsString(req.version) THEN "panic"
           ELSE IF ~SupportedVersion(req.version.v) THEN "version"
           ELSE "connect"
      [] v = vPollingCount ->
           IF ValidateRequest(req) THEN "field"
           ELSE IF ~IsString(req.ip) \/ ~IsString(req.community) THEN "panic"
           ELSE IF ~IsString(req.version) \/ ~SupportedVersion(req.version.v)
           THEN "version"
           ELSE "connect"
      [] v = vPollingArgs -> "defer"
      [] OTHER -> "connect"

\* the Port of the gosnmp.GoSNMP the pipeline builds: Discovery(reqData)
\* converts the port of the job, every other pipeline writes 161
SessionPort(v, req) == IF v = vDiscovery THEN IntOf(req.port.v) ELSE "161"

\* the pipeline is called with req: everything it does before g.Connect()
PipeCall(v, req) ==
    /\ pipe.pc = "idle"
    /\ LET e == Entry(v, req)
           p == [NoPipe EXCEPT !.variant = v, !.req = Handed(v, req),
                               !.reqData = IF v \in {vPolling, vPollingCount}
                                           THEN Validated(req)
                                           ELSE Handed(v, req)]
       IN pipe' =
            CASE e = "field" ->
                   [p EXCEPT !.pc = "done", !.status = Fail, !.error = FieldMissing]
              [] e = "plugin" ->
                   [p EXCEPT !.pc = "done", !.status = Fail, !.error = UnsupportedPlugin]
              [] e = "version" ->
                   [p EXCEPT !.pc = "done", !.status = Fail, !.error = UnsupportedSNMP]
              [] e = "panic" ->
                   [p EXCEPT !.pc = "done", !.panicked = TRUE]
              [] e = "defer" ->
                   [p EXCEPT !.pc = "done", !.panicked = TRUE, !.closedUnopened = TRUE]
              [] e = "connect" ->
                   [p EXCEPT !.pc = "connect", !.port = SessionPort(v, req)]
    /\ UNCHANGED <<pullVars, repVars, fetch, dec, sock, coll>>

\* the result a pipeline writes when g.Connect() fails
ConnectFailure(p) ==
    CASE p.variant = vDiscovery ->
           [p EXCEPT !.status = Fail, !.error = SNMPConnectFail]
      [] p.variant \in {vPolling, vPollingCount} ->
           [p EXCEPT !.status = Fail, !.detail = TRUE,
                     !.data = [present |-> TRUE, systemName |-> "",
                               error |-> SNMPConnectFail]]
      [] p.variant = vDiscoveryArgs ->
           [p EXCEPT !.status = Fail]
      [] OTHER ->
           [p EXCEPT !.error = "Error connecting to SNMP target", !.detail = TRUE]

\* g.Connect(), and on success the defer of g.Conn.Close()
PipeConnect(connects) ==
    /\ pipe.pc = "connect"
    /\ LET p == [pipe EXCEPT !.calls = Append(@, "connect")]
       IN pipe' =
            IF connects
            THEN [p EXCEPT !.session = "open", !.deferred = TRUE,
                           !.pc = IF p.variant \in DiscoveryVariants
                                  THEN "get" ELSE "scalars"]
            ELSE [ConnectFailure(p) EXCEPT !.connectFailed = TRUE, !.pc = "done"]
    /\ UNCHANGED <<pullVars, repVars, fetch, dec, sock, coll>>

\* what the device may answer to the get of the system name
NameAnswers == {"error", "text", "empty", "integer", "nothing"}

\* Discovery: the get of the system name and the result written from it
PipeGet(answer) ==
    /\ pipe.pc = "get"
    /\ LET p == [pipe EXCEPT !.calls = Append(@, "get"), !.pc = "return"]
           named(name) == [p EXCEPT !.status = Success,
                                    !.data = [present |-> TRUE, systemName |-> name,
                                              error |-> ""]]
       IN pipe' =
            CASE answer = "text" -> named("router-1")
              [] answer = "empty" -> named("")
              [] answer = "error" ->
                   [p EXCEPT !.status = Fail,
                             !.error = IF p.variant = vDiscovery THEN SNMPGetFail ELSE ""]
              [] OTHER ->
                   [p EXCEPT !.status = Fail,
                             !.error = IF p.variant = vDiscovery
                                       THEN SystemNameNotFound ELSE ""]
    /\ UNCHANGED <<pullVars, repVars, fetch, dec, sock, coll>>

\* what the device may answer to the batched get of the system attributes:
\* "oddUptime" is an answer whose uptime is nil or not a tick count
ScalarAnswers == {"error", "ok", "oddUptime"}

\* the result a polling pipeline writes when fetchSNMPSystemData fails
ScalarFailure(p) ==
    IF p.variant \in {vPolling, vPollingCount}
    THEN [p EXCEPT !.status = Success, !.detail = TRUE,
                   !.data = [present |-> TRUE, systemName |-> "",
                             error |-> SNMPConnectFail]]
    ELSE [p EXCEPT !.error = "Error fetching SNMP system data", !.detail = TRUE]

\* the status a polling pipeline returns with its data ("" where the result
\* map has no status key)
DataStatus(v) == IF v \in {vPolling, vPollingCount} THEN Success ELSE ""

\* polling: fetchSNMPSystemData(g) and what follows up to the next device
\* call; table holds the indexes of the device's interface table, and the
\* number of interfaces in the system data is the number of its rows (the
\* counted versions take their loop bound from it)
PipeScalars(answer, table) ==
    /\ pipe.pc = "scalars"
    /\ pipe.variant = vPolling => table = <<>>
    /\ LET v == pipe.variant
           count == Len(table)
           p == [pipe EXCEPT !.calls = Append(@, "get"),
                             !.oddUptime = (answer = "oddUptime")]
           q == [p EXCEPT !.data = [present |-> TRUE, systemName |-> "router-1",
                                    error |-> ""],
                          !.count = IF v = vPolling THEN -1 ELSE count]
       IN pipe' =
            IF answer = "error"
            THEN [ScalarFailure(p) EXCEPT !.scalarFailed = TRUE, !.pc = "return"]
            ELSE IF answer = "oddUptime" /\ v = vPollingCount
            THEN [p EXCEPT !.panicked = TRUE, !.pc = "return"]
            ELSE IF v = vPolling
            THEN [q EXCEPT !.pc = "walk"]
            ELSE IF count = 0
            THEN [q EXCEPT !.hasInterfaces = TRUE, !.status = DataStatus(v),
                           !.pc = "return"]
            ELSE [q EXCEPT !.device = Range(table),
                           !.enumerated = Ascending(1 .. count),
                           !.todo = 1 .. count, !.pc = "interface"]
    /\ UNCHANGED <<pullVars, repVars, fetch, dec, sock, coll>>

\* what getInterfaceIndexes may meet: the walk goes through, the walk fails,
\* or the last part of a returned OID does not parse as an index
WalkAnswers == {"ok", "error", "unparsable"}

\* a faulty pipeline, one that fails the job when the walk fails
WalkFailure_FailsJob(p) ==
    [p EXCEPT !.interfaceError = "Error fetching interface indexes",
              !.status = Fail, !.data = NoPipeData]

\* the result FetchSNMPData writes when getInterfaceIndexes returns an error:
\* the system data with the interface error and the count 0, status success
WalkFailure(p) ==
    [p EXCEPT !.interfaceError = "Error fetching interface indexes",
              !.count = 0, !.status = Success]

\* getInterfaceIndexes(g): the walk of the interface table, and what
\* FetchSNMPData writes from it
PipeWalk(answer, indexes) ==
    /\ pipe.pc = "walk"
    /\ answer # "ok" => indexes = <<>>
    /\ LET p == [pipe EXCEPT !.calls = Append(@, "walk"), !.walk = answer]
       IN pipe' =
            IF answer # "ok"
            THEN [WalkFailure(p) EXCEPT !.pc = "return"]
            ELSE IF indexes = <<>>
            THEN [p EXCEPT !.count = 0, !.hasInterfaces = TRUE, !.status = Success,
                           !.pc = "return"]
            ELSE [p EXCEPT !.device = Range(indexes), !.count = Len(indexes),
                           !.enumerated = indexes, !.todo = Range(indexes),
                           !.pc = "interface"]
    /\ UNCHANGED <<pullVars, repVars, fetch, dec, sock, coll>>

\* the interfaces whose fetch may complete next: the loops fetch in the order
\* of the indexes, the goroutines of the concurrent version complete in any
\* order
NextInterfaces(p) ==
    IF p.variant = vFetcher THEN p.todo
    ELSE {i \in p.todo : \A j \in p.todo : i <= j}

\* a faulty loop, one that appends the record of a failed fetch as well
Keeps_Always(v, answers) == TRUE

\* whether getInterfaces appends the record getInterface returned: the loops
\* append it when err is nil, the goroutines of the concurrent version always
Keeps(v, answers) == answers \/ v = vFetcher

\* getInterface for index i, and what getInterfaces does with its result: the
\* loop over the indexes skips a failed interface, the counted loop gives up at
\* the first failure, the concurrent version appends the failed record as well
PipeInterface(i, answers) ==
    /\ pipe.pc = "interface"
    /\ i \in NextInterfaces(pipe)
    /\ LET v == pipe.variant
           p == [pipe EXCEPT !.calls = Append(@, "get"), !.todo = @ \ {i},
                             !.failed = IF answers THEN @ ELSE @ \cup {i}]
           record == [index |-> i, ok |-> answers]
           q == IF Keeps(v, answers)
                THEN [p EXCEPT !.interfaces = Append(@, record)]
                ELSE p
       IN pipe' =
            IF ~answers /\ v = vPollingCount
            THEN [p EXCEPT !.interfaces = <<>>,
                           !.interfaceError = "Error fetching interface data",
                           !.status = DataStatus(v), !.pc = "return"]
            ELSE IF q.todo = {}
            THEN [q EXCEPT !.hasInterfaces = TRUE, !.status = DataStatus(v),
                           !.pc = "return"]
            ELSE q
    /\ UNCHANGED <<pullVars, repVars, fetch, dec, sock, coll>>

\* a faulty return, one that runs no deferred call
ClosesOnReturn_Never(p) == FALSE

\* defer g.Conn.Close() was reached after a Connect that succeeded
ClosesOnReturn(p) == p.deferred /\ p.session = "open"

\* the pipeline returns (or unwinds from a panic): the deferred
\* g.Conn.Close() runs
PipeReturn ==
    /\ pipe.pc = "return"
    /\ pipe' = IF ClosesOnReturn(pipe)
               THEN [pipe EXCEPT !.session = "closed", !.calls = Append(@, "close"),
                                 !.pc = "done"]
               ELSE [pipe EXCEPT !.pc = "done"]
    /\ UNCHANGED <<pullVars, repVars, fetch, dec, sock, coll>>

\* ------------------------------------------- the steps of getInterfaces

\* the mutex the fetches of job j lock around g.Get
MutexOf(v, j) == IF v = vFetcher THEN mutexForSnmp ELSE j

\* a faulty mutex, one that lets everybody in
CanLock_NoExclusion(m) == TRUE

\* mutex.Lock() returns only when nobody holds the mutex
CanLock(m) == fetch.holder[m] = Unlocked

\* the index the loop of job j is at: the least one not started
NextIndex(j) ==
    {i \in 1 .. fetch.count[j] :
        /\ fetch.phase[j][i] = "new"
        /\ \A k \in 1 .. (i - 1) : fetch.phase[j][k] # "new"}

\* the worker of job j calls getInterfaces for a device with count interfaces
FetchStart(v, j, count) ==
    /\ fetch.variant \in {"none", v}
    /\ fetch.count[j] = 0
    /\ fetch' = [fetch EXCEPT !.variant = v, !.count[j] = count]
    /\ UNCHANGED <<pullVars, repVars, pipe, dec, sock, coll>>

\* go getInterface(i, ...): the loop starts the next goroutine and goes on
FetchSpawn(j) ==
    /\ fetch.variant \in {vFetcher, vChannel}
    /\ \E i \in NextIndex(j) :
          fetch' = [fetch EXCEPT !.phase[j][i] = "started"]
    /\ UNCHANGED <<pullVars, repVars, pipe, dec, sock, coll>>

\* mutexForSnmp.Lock() and the request of g.Get in a goroutine
FetchLock(j, i) ==
    /\ fetch.variant \in {vFetcher, vChannel}
    /\ fetch.phase[j][i] = "started"
    /\ CanLock(MutexOf(fetch.variant, j))
    /\ fetch' = [fetch EXCEPT !.phase[j][i] = "get",
                             !.holder[MutexOf(fetch.variant, j)] = <<j, i>>]
    /\ UNCHANGED <<pullVars, repVars, pipe, dec, sock, coll>>

\* the loop over the indexes calls getInterface: the request of g.Get, once
\* the call for the index before has returned
FetchCall(j) ==
    /\ fetch.variant = vPolling
    /\ \A i \in 1 .. MaxIfs : fetch.phase[j][i] # "get"
    /\ \E i \in NextIndex(j) :
          fetch' = [fetch EXCEPT !.phase[j][i] = "get"]
    /\ UNCHANGED <<pullVars, repVars, pipe, dec, sock, coll>>

\* the response (or the timeout) of g.Get, the unlock where there was a lock,
\* and the record handed over
FetchReturn(j, i) ==
    /\ fetch.phase[j][i] = "get"
    /\ fetch' = [fetch EXCEPT
                   !.phase[j][i] = "done",
                   !.holder = [m \in Mutexes |-> IF @[m] = <<j, i>> THEN Unlocked ELSE @[m]]]
    /\ UNCHANGED <<pullVars, repVars, pipe, dec, sock, coll>>

\* ------------------------------------------------ the steps of a decode

\* fetchSNMPSystemData on the response of a device, for every order the
\* range over the table may take
DecodeSystem ==
    /\ dec = NoDecode
    /\ \E v \in SystemVariants : \E order \in Orders(SNMPOids) :
          \E device \in SystemDevices :
             dec' = [op |-> "system", variant |-> v, order |-> order,
                     device |-> device,
                     out |-> fetchSNMPSystemData(v, order, device)]
    /\ UNCHANGED <<pullVars, repVars, pipe, fetch, sock, coll>>

\* getInterface on the response of a device
DecodeInterface ==
    /\ dec = NoDecode
    /\ \E v \in InterfaceVariants : \E order \in Orders(InterfaceOids) :
          \E device \in InterfaceDevices : \E index \in 1 .. MaxIfs :
             dec' = [op |-> "interface", variant |-> v, order |-> order,
                     device |-> device,
                     out |-> getInterface(v, order, device, index)]
    /\ UNCHANGED <<pullVars, repVars, pipe, fetch, sock, coll>>

\* the uptime text of a tick count
DecodeUptime ==
    /\ dec = NoDecode
    /\ \E ticks \in Ticks :
          dec' = [op |-> "uptime", ticks |-> ticks,
                  fields |-> UptimeFields(UptimeSeconds(ticks)),
                  out |-> UptimeText(ticks)]
    /\ UNCHANGED <<pullVars, repVars, pipe, fetch, sock, coll>>

\* the uptime text of a tick count of the upper half of the range
DecodeUptimeHigh ==
    /\ dec = NoDecode
    /\ \E u \in HighTicks :
          dec' = [op |-> "uptime high", ticks |-> u,
                  fields |-> UptimeFields(UptimeSecondsOfHalves(u)),
                  out |-> UptimeSprintf(UptimeFields(UptimeSecondsOfHalves(u)))]
    /\ UNCHANGED <<pullVars, repVars, pipe, fetch, sock, coll>>

\* ------------------------------------- the steps of a loop on a REP socket

\* validateRequest of handler/zmq.go: the keys that are missing or empty
missingFields(req) ==
    {k \in {"ip", "community", "version"} : req[k].t = "absent" \/ req[k].v = ""}

\* one pass of StartZMQServer's loop on payload p
StartZMQServer(p, marshals) ==
    IF ~Unmarshals(p) THEN Pass("unparsable", 0)
    ELSE IF ~marshals THEN Pass("marshal", 0)
    ELSE Pass(polling, 1)

\* one pass of the loop of startWorker in handler/zmq.go
startWorkerOfHandler(p, marshals) ==
    IF ~Unmarshals(p) THEN Pass("unparsable", 1)
    ELSE IF missingFields(p.req) # {} THEN Pass("missing", 1)
    ELSE IF ~marshals THEN Pass("marshal", 0)
    ELSE Pass(polling, 1)

\* one pass of the loop of startWorker in server/server.go
startWorkerOfServer(p, answers) ==
    IF p.kind = "health" THEN Pass(health_check, 1)
    ELSE IF p.kind # "json" THEN PassPanic("unparsable")
    ELSE IF ~IsString(p.req.requestType) THEN PassPanic("type")
    ELSE IF ToLower(p.req.requestType.v) = discovery
    THEN IF Discovery(p.req, [connect |-> answers, get |-> answers,
                              value |-> "text"]).panic
         THEN PassPanic(discovery) ELSE Pass(discovery, 1)
    ELSE IF ToLower(p.req.requestType.v) = polling
    THEN IF FetchSNMPData(p.req, [connect |-> answers, sysGet |-> answers]).panic
         THEN PassPanic(polling) ELSE Pass(polling, 1)
    ELSE Pass("type", 1)

\* one pass of the loop of startWorker in part_003: every branch ends in one
\* worker.Send
startWorkerOfRouter(p, answers) ==
    LET reply == startWorker(p, answers)
    IN Pass(IF reply.ran # "none" THEN reply.ran
            ELSE IF reply.error # "" THEN reply.error ELSE reply.message, 1)

\* Recv(0) returns the next request: the socket has a reply due from now on
LoopRecv(v, p) ==
    /\ sock.pc = "recv"
    /\ ~sock.due
    /\ sock.variant \in {"none", v}
    /\ sock.recvs < MaxJobs
    /\ sock' = [sock EXCEPT !.variant = v, !.pc = "handle", !.due = TRUE,
                            !.recvs = @ + 1, !.req = p, !.last = NoPass]
    /\ UNCHANGED <<pullVars, repVars, pipe, fetch, dec, coll>>

\* the rest of the pass: a Send settles the reply that is due, a panic ends
\* the process
LoopHandle(answers, marshals) ==
    /\ sock.pc = "handle"
    /\ LET v == sock.variant
           pass == CASE v = vStartZMQServer -> StartZMQServer(sock.req, marshals)
                     [] v = vWorkerOfHandler -> startWorkerOfHandler(sock.req, marshals)
                     [] v = vWorkerOfServer -> startWorkerOfServer(sock.req, answers)
                     [] OTHER -> startWorkerOfRouter(sock.req, answers)
       IN sock' = [sock EXCEPT !.pc = IF pass.panic THEN "panicked" ELSE "recv",
                               !.due = (pass.sends = 0),
                               !.last = pass]
    /\ UNCHANGED <<pullVars, repVars, pipe, fetch, dec, coll>>

\* Recv(0) while a reply is due: the socket refuses it, the loop logs the
\* error and calls Recv again
LoopRecvRefused ==
    /\ sock.pc = "recv"
    /\ sock.due
    /\ ~sock.refused
    /\ sock' = [sock EXCEPT !.refused = TRUE]
    /\ UNCHANGED <<pullVars, repVars, pipe, fetch, dec, coll>>

\* ------------------------------------ the steps of a concurrent collector

\* getInterfaces(g, numInterfaces) is called
CollectStart(v, numInterfaces) ==
    /\ coll.variant = "none"
    /\ coll' = [coll EXCEPT !.variant = v, !.numInterfaces = numInterfaces,
                            !.main = "loop"]
    /\ UNCHANGED <<pullVars, repVars, pipe, fetch, dec, sock>>

\* wg.Add(1); go getInterface(i, ...) for the next index
CollectSpawn ==
    /\ coll.main = "loop"
    /\ coll.spawned < coll.numInterfaces
    /\ coll' = [coll EXCEPT !.spawned = @ + 1, !.wg = @ + 1,
                            !.phase[coll.spawned + 1] = "started"]
    /\ UNCHANGED <<pullVars, repVars, pipe, fetch, dec, sock>>

\* the loop is over: the caller goes into wg.Wait(), or starts the goroutine
\* that closes the channel and goes into the range over the channel
CollectLoopEnd ==
    /\ coll.main = "loop"
    /\ coll.spawned = coll.numInterfaces
    /\ coll' = [coll EXCEPT !.main = IF coll.variant = vChannel THEN "range" ELSE "wait"]
    /\ UNCHANGED <<pullVars, repVars, pipe, fetch, dec, sock>>

\* mutexForSnmp.Lock() and the request of g.Get in the goroutine of index i
CollectLock(i) ==
    /\ coll.phase[i] = "started"
    /\ coll.snmp = 0
    /\ coll' = [coll EXCEPT !.phase[i] = "get", !.snmp = i]
    /\ UNCHANGED <<pullVars, repVars, pipe, fetch, dec, sock>>

\* g.Get returns, with the values or with an error, and the mutex is unlocked
CollectGet(i, fetched) ==
    /\ coll.phase[i] = "get"
    /\ coll' = [coll EXCEPT !.phase[i] = "got", !.fetched[i] = fetched, !.snmp = 0]
    /\ UNCHANGED <<pullVars, repVars, pipe, fetch, dec, sock>>

\* ch <- interfaceData on the channel of capacity numInterfaces, and the
\* deferred wg.Done()
CollectSend(i) ==
    /\ coll.variant = vChannel
    /\ coll.phase[i] = "got"
    /\ ~coll.closed
    /\ CanSend(coll.ch, coll.numInterfaces)
    /\ coll' = [coll EXCEPT !.ch = Append(@, InterfaceRecord(i, coll.fetched[i])),
                            !.phase[i] = "done", !.wg = @ - 1]
    /\ UNCHANGED <<pullVars, repVars, pipe, fetch, dec, sock>>

\* a faulty mutexForData, one that lets everybody in
CanLockData_NoExclusion(holder) == TRUE

\* mutexForData.Lock() returns only when nobody holds the mutex
CanLockData(holder) == holder = 0

\* mutexForData.Lock() and the read of *interfacesData by append
CollectAppendLock(i) ==
    /\ coll.variant = vFetcher
    /\ coll.phase[i] = "got"
    /\ CanLockData(coll.mutexForData)
    /\ coll' = [coll EXCEPT !.phase[i] = "append", !.mutexForData = i,
                            !.slice[i] = coll.interfacesData]
    /\ UNCHANGED <<pullVars, repVars, pipe, fetch, dec, sock>>

\* the write of the appended slice to *interfacesData, mutexForData.Unlock()
\* and the deferred wg.Done()
CollectAppend(i) ==
    /\ coll.phase[i] = "append"
    /\ coll' = [coll EXCEPT
                  !.interfacesData =
                      Append(coll.slice[i], InterfaceRecord(i, coll.fetched[i])),
                  !.slice[i] = <<>>,
                  !.mutexForData = IF @ = i THEN 0 ELSE @,
                  !.phase[i] = "done", !.wg = @ - 1]
    /\ UNCHANGED <<pullVars, repVars, pipe, fetch, dec, sock>>

\* wg.Wait() returns in the closing goroutine, which closes the channel
CollectClose ==
    /\ coll.variant = vChannel
    /\ coll.main = "range"
    /\ ~coll.closed
    /\ coll.wg = 0
    /\ coll' = [coll EXCEPT !.closed = TRUE]
    /\ UNCHANGED <<pullVars, repVars, pipe, fetch, dec, sock>>

\* for data := range ch: the caller receives a record and appends it
CollectRange ==
    /\ coll.main = "range"
    /\ coll.ch # <<>>
    /\ coll' = [coll EXCEPT !.interfacesData = Append(@, Head(coll.ch)),
                            !.ch = Tail(@)]
    /\ UNCHANGED <<pullVars, repVars, pipe, fetch, dec, sock>>

\* the collector returns interfacesData: the range ends on the closed and
\* drained channel, wg.Wait() returns when the counter is zero
CollectReturn ==
    /\ \/ coll.main = "range" /\ coll.ch = <<>> /\ coll.closed
       \/ coll.main = "wait" /\ coll.wg = 0
    /\ coll' = [coll EXCEPT !.main = "returned"]
    /\ UNCHANGED <<pullVars, repVars, pipe, fetch, dec, sock>>

\* ----------------------------------------------------------- specification

Next ==
    \/ \E p \in Payloads(NextNumber) : Arrive(p)
    \/ ArriveHealth
    \/ RouterRecv
    \/ RouterUnblock
    \/ RouterDefer
    \/ \E w \in Workers : WorkerTake(w)
    \/ \E w \in Workers : WorkerExit(w)
    \/ \E w \in Workers : \E dev \in DevicesOf(w) : WorkerRun(w, dev)
    \/ \E w \in Workers : WorkerSend(w)
    \/ Sender
    \/ SenderExit

Spec == Init /\ [][Next]_vars

NextRep ==
    \/ \E p \in RepPayloads : RepRecv(p)
    \/ \E answers \in BOOLEAN : RepSend(answers)

SpecRep == Init /\ [][NextRep]_vars

NextPipe ==
    \/ \E v \in Variants : \E req \in PipeRequests : PipeCall(v, req)
    \/ \E connects \in BOOLEAN : PipeConnect(connects)
    \/ \E answer \in NameAnswers : PipeGet(answer)
    \/ \E answer \in ScalarAnswers : \E table \in IndexLists : PipeScalars(answer, table)
    \/ \E answer \in WalkAnswers : \E indexes \in IndexLists : PipeWalk(answer, indexes)
    \/ \E i \in 1 .. MaxIfs : \E answers \in BOOLEAN : PipeInterface(i, answers)
    \/ PipeReturn

SpecPipe == Init /\ [][NextPipe]_vars

NextFetch ==
    \/ \E v \in FetchVariants : \E j \in Jobs : \E count \in 1 .. MaxIfs :
          FetchStart(v, j, count)
    \/ \E j \in Jobs : FetchSpawn(j)
    \/ \E j \in Jobs : \E i \in 1 .. MaxIfs : FetchLock(j, i)
    \/ \E j \in Jobs : FetchCall(j)
    \/ \E j \in Jobs : \E i \in 1 .. MaxIfs : FetchReturn(j, i)

SpecFetch == Init /\ [][NextFetch]_vars

NextDecode == DecodeSystem \/ DecodeInterface \/ DecodeUptime \/ DecodeUptimeHigh

SpecDecode == Init /\ [][NextDecode]_vars

NextLoop ==
    \/ \E v \in LoopVariants : \E p \in LoopPayloads : LoopRecv(v, p)
    \/ \E answers \in BOOLEAN : \E marshals \in BOOLEAN : LoopHandle(answers, marshals)
    \/ LoopRecvRefused

SpecLoop == Init /\ [][NextLoop]_vars

NextCollect ==
    \/ \E v \in CollectVariants : \E numInterfaces \in 0 .. MaxIfs :
          CollectStart(v, numInterfaces)
    \/ CollectSpawn
    \/ CollectLoopEnd
    \/ \E i \in 1 .. MaxIfs : CollectLock(i)
    \/ \E i \in 1 .. MaxIfs : \E fetched \in BOOLEAN : CollectGet(i, fetched)
    \/ \E i \in 1 .. MaxIfs : CollectSend(i)
    \/ \E i \in 1 .. MaxIfs : CollectAppendLock(i)
    \/ \E i \in 1 .. MaxIfs : CollectAppend(i)
    \/ CollectClose
    \/ CollectRange
    \/ CollectReturn

SpecCollect == Init /\ [][NextCollect]_vars

\* the worker of each pool that no device call ever stalls: the other workers
\* of the pool may stop at any point and for ever
FreeWorker(pool) == CHOOSE w \in pool : \A v \in pool : v <= w

FreeWorkers == {FreeWorker(DiscoveryWorkers), FreeWorker(PollingWorkers)}

\* the Go scheduler runs every goroutine that can run; a device call of a free
\* worker returns (the per-call timeout bounds it); a goroutine blocked on a
\* channel send waits in the channel's queue of senders, which the runtime
\* serves first come first served, so no later send overtakes it for ever
FairSpec ==
    /\ Spec
    /\ WF_vars(RouterRecv)
    /\ SF_vars(RouterUnblock)
    /\ WF_vars(RouterDefer)
    /\ WF_vars(Sender)
    /\ WF_vars(SenderExit)
    /\ \A w \in FreeWorkers :
          /\ WF_vars(WorkerTake(w))
          /\ WF_vars(WorkerExit(w))
          /\ WF_vars(\E dev \in DevicesOf(w) : WorkerRun(w, dev))
          /\ SF_vars(WorkerSend(w))

\* ------------------------------------------------------------------ claims

\* the payload numbers a channel holds
ChanJobs(ch) == {ch[i].n : i \in 1 .. Len(ch)}

Holding(w) == wpc[w] \in {"run", "send"}

RouterBlocked == routerPc \in {"health", "enqD", "enqP"}

\* in how many places payload n is: waiting at the socket, pending in StartPull,
\* on a channel, held by a worker
Occurrences(n) ==
    Cardinality({i \in 1 .. Len(inbox) : inbox[i].n = n})
      + (IF RouterBlocked /\ routerJob.n = n THEN 1 ELSE 0)
      + Cardinality({i \in 1 .. Len(requestDiscoveryChan) : requestDiscoveryChan[i].n = n})
      + Cardinality({i \in 1 .. Len(requestPollingChan) : requestPollingChan[i].n = n})
      + Cardinality({i \in 1 .. Len(responseChan) : responseChan[i].n = n})
      + Cardinality({w \in Workers : Holding(w) /\ wjob[w].n = n})

\* what waits at the socket
Waiting == {inbox[i] : i \in 1 .. Len(inbox)}

\* the job payloads StartPull may receive in the next step
Receivable == {p \in Payloads(NextNumber) \cup Waiting : p.kind # "health"}

\* this step is StartPull's pass over payload p
Handles(p) ==
    \/ Arrive(p) /\ routerPc = "recv"
    \/ RouterRecv /\ Head(inbox) = p

\* this step hands the reply for payload n to the transport
Emits(n) ==
    /\ responseChan # <<>>
    /\ Head(responseChan).n = n
    /\ responseChan' = Tail(responseChan)

\* C1: every job the router receives (discovery, polling, unknown type or
\* invalid) gets exactly one Envelope: once received, a job stays in the
\* process (pending, queued, held by one worker, or as its Envelope on the
\* response channel) until its Envelope is handed to the transport, and it is
\* never in two places at once.
C1_ExactlyOneEnvelope ==
    [][/\ \A p \in Receivable : Handles(p) => Occurrences(p.n)' = 1
       /\ \A n \in PayloadNumbers :
             /\ Occurrences(n)' <= 1
             /\ Occurrences(n) = 1 /\ Occurrences(n)' = 0 => Emits(n)]_vars

\* C2: a failure inside a pipeline becomes a fail Envelope and never ends the
\* worker's loop: whatever the device does on the job a worker holds, the
\* pipeline returns, with status fail when it met a failure, and no pipeline
\* panic ends the process.
C2_FailureBecomesFailEnvelope ==
    /\ crashed # "pipeline panic"
    /\ \A w \in Workers :
          wpc[w] = "run" =>
            \A dev \in DevicesOf(w) :
                LET res == Pipeline(w, wjob[w].req, dev)
                IN /\ ~res.panic
                   /\ res.fault # "none" => res.status = Fail

\* C3: a health check is answered whatever the backlog is: it never waits at
\* the socket behind an enqueue of the router that has not completed.
C3_HealthCheckNeverWaits ==
    \A i \in 1 .. Len(inbox) :
        inbox[i].kind = "health" => routerPc \notin {"enqD", "enqP"}

\* the fields the router is to find present and non-empty
RequiredFields(req) ==
    {req.ip, req.community, req.version, req.requestId, req.requestType}

Complete(req) == \A f \in RequiredFields(req) : IsString(f) /\ f.v # ""

\* C4: a request that lacks one of host, credential, protocolVersion, jobId,
\* jobType is never placed on a job queue (nor is the router pending on
\* placing it).
C4_IncompleteNeverQueued ==
    /\ \A i \in 1 .. Len(requestDiscoveryChan) : Complete(requestDiscoveryChan[i].req)
    /\ \A i \in 1 .. Len(requestPollingChan) : Complete(requestPollingChan[i].req)
    /\ routerPc \in {"enqD", "enqP"} => Complete(routerJob.req)

\* C5: the router's pass over a request of unknown jobType puts a fail
\* Envelope for it on the response channel and leaves both job queues alone.
C5_UnknownTypeGetsFailEnvelope ==
    [][\A p \in Receivable :
          Handles(p) /\ Route(p) = "drop" =>
            /\ \E i \in 1 .. Len(responseChan') :
                  /\ responseChan'[i].n = p.n
                  /\ responseChan'[i].status = Fail
            /\ UNCHANGED <<requestDiscoveryChan, requestPollingChan>>]_vars

\* the jobType of a request, compared without regard to case
JobType(req) == IF IsString(req.requestType) THEN ToLower(req.requestType.v) ELSE ""

\* a request the REP worker finds valid: it parses, no key is missing, the
\* plugin is snmp and the jobType is discovery or polling
ValidRepJob(p) ==
    /\ Unmarshals(p)
    /\ validateRequest(p.req) = {}
    /\ ToLower(p.req.pluginType.v) = SNMPPlugin
    /\ JobType(p.req) \in {discovery, polling}

\* C6: every valid job is on the queue of its own type and is run by the
\* matching pipeline: the discovery queue and the discovery workers hold
\* discovery jobs only, the polling queue and the polling workers hold polling
\* jobs only, and the REP worker has run on a valid job the pipeline of the
\* job's type.
C6_JobRunsMatchingPipeline ==
    /\ \A i \in 1 .. Len(requestDiscoveryChan) :
          JobType(requestDiscoveryChan[i].req) = discovery
    /\ \A i \in 1 .. Len(requestPollingChan) :
          JobType(requestPollingChan[i].req) = polling
    /\ \A w \in Workers :
          Holding(w) =>
            JobType(wjob[w].req) = IF w \in DiscoveryWorkers THEN discovery ELSE polling
    /\ repPc = "recv" /\ ValidRepJob(repReq) => repReply.ran = JobType(repReq.req)

\* this step leaves a job channel as it is, takes its head away (a worker's
\* receive) or appends job j to it (the router's send)
QueueStep(ch, chNext, j) ==
    \/ chNext = ch
    \/ ch # <<>> /\ chNext = Tail(ch)
    \/ chNext = Append(ch, j)

\* C7: a job queue never holds more than its capacity; a router that finds the
\* queue full blocks holding the job, stays blocked while the queue is full,
\* and then appends that very job: no job is dropped because a queue is full.
C7_BoundedQueuesBlockRouter ==
    [][/\ Len(requestDiscoveryChan') <= ChanCap
       /\ Len(requestPollingChan') <= ChanCap
       /\ \A p \in Receivable :
             /\ Handles(p) /\ Route(p) = "enqD" /\ Len(requestDiscoveryChan) = ChanCap
                  => routerPc' = "enqD" /\ routerJob' = p
             /\ Handles(p) /\ Route(p) = "enqP" /\ Len(requestPollingChan) = ChanCap
                  => routerPc' = "enqP" /\ routerJob' = p
             /\ Handles(p) /\ Route(p) = "enqD" /\ Len(requestDiscoveryChan) < ChanCap
                  => requestDiscoveryChan' = Append(requestDiscoveryChan, p)
             /\ Handles(p) /\ Route(p) = "enqP" /\ Len(requestPollingChan) < ChanCap
                  => requestPollingChan' = Append(requestPollingChan, p)
       /\ routerPc = "enqD" /\ Len(requestDiscoveryChan) = ChanCap
            => routerPc' = "enqD" /\ routerJob' = routerJob
       /\ routerPc = "enqP" /\ Len(requestPollingChan) = ChanCap
            => routerPc' = "enqP" /\ routerJob' = routerJob
       /\ routerPc = "enqD" /\ routerPc' # "enqD"
            => requestDiscoveryChan' = Append(requestDiscoveryChan, routerJob)
       /\ routerPc = "enqP" /\ routerPc' # "enqP"
            => requestPollingChan' = Append(requestPollingChan, routerJob)
       /\ QueueStep(requestDiscoveryChan, requestDiscoveryChan', routerJob)
            \/ \E p \in Receivable :
                  requestDiscoveryChan' = Append(requestDiscoveryChan, p)
       /\ QueueStep(requestPollingChan, requestPollingChan', routerJob)
            \/ \E p \in Receivable :
                  requestPollingChan' = Append(requestPollingChan, p)]_vars

\* the router is blocked on a full polling queue
C7_Witness ==
    /\ routerPc = "enqP"
    /\ Len(requestPollingChan) = ChanCap
    /\ routerJob.kind = "json"

\* job n waits in the queue of its pool
Queued(n) == n \in ChanJobs(requestDiscoveryChan) \cup ChanJobs(requestPollingChan)

C9_ShutdownDrainsFirst ==
    /\ crashed # "send on closed channel"
    /\ ResponseClosed =>
          /\ requestDiscoveryChan = <<>>
          /\ requestPollingChan = <<>>
          /\ \A w \in Workers : ~Holding(w)

\* C10: every Envelope carries the jobId of the job that produced it: none
\* carries another job's id, none carries no id.
C10_EnvelopeCarriesJobId ==
    \A i \in 1 .. Len(responseChan) :
        responseChan[i].kind = "envelope" =>
            responseChan[i].req.requestId = S(IdStr(responseChan[i].n))

\* C11: every emitted Envelope has status success or fail; with status
\* success its data is populated and it has no error, with status fail its
\* error is populated and it has no data.
C11_StatusDataErrorExclusive ==
    \A i \in 1 .. Len(responseChan) :
        LET e == responseChan[i]
        IN e.kind = "envelope" =>
              /\ e.status \in {Success, Fail}
              /\ e.status = Success => e.data.present /\ e.error = ""
              /\ e.status = Fail => e.error # "" /\ ~e.data.present

\* a request whose host, port, credential, plugin type and job id are all
\* there: what is left to go wrong is its version
FieldsPresent(req) ==
    /\ \A f \in {req.ip, req.community, req.requestId} :
          IsString(f) /\ TrimSpace(f.v) # ""
    /\ req.port.t = "number"
    /\ req.pluginType = S(SNMPPlugin)

PipeRequired(req) == {req.ip, req.community, req.version, req.requestId}

\* C13: a pipeline called with a required field missing or empty returns a
\* fail result "missing field" before it makes any connect, get or walk, and
\* a request that has all its required fields is not rejected as missing one.
C13_MissingFieldBeforeIO ==
    /\ pipe.pc # "idle"
    /\ pipe.req.pluginType = S(SNMPPlugin)
    /\ pipe.req.port.t = "number"
    => IF \E f \in PipeRequired(pipe.req) : ~IsString(f) \/ TrimSpace(f.v) = ""
       THEN /\ pipe.pc = "done"
            /\ ~pipe.panicked
            /\ pipe.status = Fail
            /\ pipe.error = FieldMissing
            /\ pipe.calls = <<>>
       ELSE pipe.error # FieldMissing

\* C14: when connect fails the result has status fail with the "connection
\* failed" error and the underlying error detail, no get and no walk is
\* attempted, and no session is left open.
C14_ConnectFailureResult ==
    pipe.connectFailed =>
        /\ pipe.status = Fail
        /\ SNMPConnectFail \in {pipe.error, pipe.data.error}
        /\ pipe.detail
        /\ pipe.calls = <<"connect">>
        /\ pipe.session # "open"

\* C15: when the batched get of the system attributes fails the polling job
\* ends with a fail result (status fail, an error set), and no interface is
\* enumerated or fetched.
C15_ScalarFailureShortCircuits ==
    pipe.scalarFailed =>
        /\ pipe.status = Fail
        /\ pipe.error # "" \/ pipe.data.error # ""
        /\ pipe.calls \in {<<"connect", "get">>, <<"connect", "get", "close">>}
        /\ pipe.enumerated = <<>> /\ pipe.interfaces = <<>>

\* C16: a session a pipeline opened is closed by the time the pipeline
\* returns, whatever path it leaves by; a session is closed at most once and
\* never before it was opened.
C16_SessionClosedExactlyOnce ==
    /\ pipe.pc = "done" => pipe.session # "open"
    /\ ~pipe.closedUnopened
    /\ \A i \in 1 .. Len(pipe.calls) :
          pipe.calls[i] = "close" =>
              /\ pipe.calls[1] = "connect"
              /\ \A j \in 1 .. Len(pipe.calls) : pipe.calls[j] = "close" => j = i

\* C17: the result of a discovery job has status success exactly when its
\* data holds a system name that is not empty; in every other case (get
\* error, a value that is not text, an empty name) the status is fail and an
\* error is set.
C17_SuccessIffSystemName ==
    pipe.variant \in DiscoveryVariants /\ pipe.pc = "done" /\ ~pipe.panicked =>
        /\ pipe.status = Success <=> pipe.data.present /\ pipe.data.systemName # ""
        /\ pipe.status # Success => pipe.status = Fail /\ pipe.error # ""

\* C18: the interfaces list of a polling result has one record for each index
\* the enumeration returned (when no fetch failed) and its records are in
\* strictly ascending order of index, whatever order the fetches complete in.
C18_InterfacesAscending ==
    pipe.hasInterfaces =>
        /\ pipe.failed = {} => Len(pipe.interfaces) = Len(pipe.enumerated)
        /\ \A i, j \in 1 .. Len(pipe.interfaces) :
              i < j => pipe.interfaces[i].index < pipe.interfaces[j].index

\* C19: whatever indexes were discovered and whichever of their fetches fail,
\* the interface list of the polling result holds exactly the records of the
\* indexes whose fetch succeeded, the status of the job is success, and every
\* index is fetched, those after a failure too.
C19_FailedInterfacesOnlyExcluded ==
    pipe.pc = "done" /\ pipe.enumerated # <<>> /\ ~pipe.panicked =>
        /\ {r.index : r \in Range(pipe.interfaces)} = Range(pipe.enumerated) \ pipe.failed
        /\ Len(pipe.interfaces) = Cardinality(Range(pipe.enumerated) \ pipe.failed)
        /\ pipe.status = Success
        /\ pipe.todo = {}

\* the indexes the result names as failed: the records that carry an error
\* instead of the interface's attributes
perInterfaceErrors(p) == {r.index : r \in {x \in Range(p.interfaces) : ~x.ok}}

\* C20: every failure of a per-interface fetch is recorded in the polling
\* result, one entry for each failed index, and the job does not fail for it:
\* no failed interface is missing from the result without a trace.
C20_InterfaceFailuresRecorded ==
    pipe.pc = "done" /\ pipe.failed # {} /\ ~pipe.panicked =>
        /\ perInterfaceErrors(pipe) = pipe.failed
        /\ pipe.status # Fail

\* the fetches of job j that were started and have not finished
InFlight(j) == {i \in 1 .. MaxIfs : fetch.phase[j][i] \in {"started", "get"}}

\* a maximum that is fixed: smaller than the number of interfaces of the
\* largest device
FetchLimit == MaxIfs - 1

\* C21: within one polling job the number of per-interface fetches that were
\* started and have not finished never exceeds a fixed maximum, one that
\* does not grow with the number of interfaces of the device.
C21_BoundedFetchesInFlight ==
    \A j \in Jobs : Cardinality(InFlight(j)) <= FetchLimit

\* the fetches of job j whose request is out on the job's session
Exchanging(j) == {i \in 1 .. MaxIfs : fetch.phase[j][i] = "get"}

\* C22: two request/response exchanges are never in progress on one device
\* session: a get on the session of a job is made under the mutex, or by
\* the one loop that uses the session.
C22_ExchangesNeverOverlap ==
    \A j \in Jobs : Cardinality(Exchanging(j)) <= 1

\* a goroutine of a job has its request out while another goroutine of the
\* same job, started as well, is kept waiting
C22_Witness ==
    \E j \in Jobs :
        /\ fetch.variant \in {vFetcher, vChannel}
        /\ Cardinality(Exchanging(j)) = 1
        /\ \E i \in 1 .. MaxIfs : fetch.phase[j][i] = "started"

\* C23: no mutable state is shared between two jobs: a fetch of one job never
\* waits on a lock that a fetch of another job holds.
C23_NoLockSharedAcrossJobs ==
    \A j \in Jobs : \A i \in 1 .. MaxIfs :
        LET h == fetch.holder[MutexOf(fetch.variant, j)]
        IN fetch.phase[j][i] = "started" /\ h # Unlocked => h[1] = j

\* the table a decode went through
TableOf(d) == IF d.op = "system" THEN SNMPOids ELSE InterfaceOids

\* the content of val, as it has to show in a record: the text of its bytes
\* (for a physical address the text its version formats), the number itself
\* or its digits
Shows(d, oid, got) ==
    LET val == d.device[oid]
    IN CASE val.t = "nil" -> got = S(Nil)
         [] val.t = "bytes" ->
              got = IF TableOf(d)[oid] = physicalAddress
                    THEN S(FormatMac(d.variant, val.v))
                    ELSE S(String(val.v))
         [] val.t = "string" -> got = val
         [] OTHER ->
              \/ got.t = val.t /\ got.v = val.v
              \/ got.t = "string" /\ got.v = Dec(val.v)

\* C24: in the system fetch and in each per-interface fetch the i-th value of
\* the response is stored under the field name of the i-th OID of the same
\* request, whatever order the range over the OID table took: every field
\* of the result holds the value the device has for the OID of that field.
C24_PositionalZip ==
    dec.op \in {"system", "interface"} =>
        \A oid \in DOMAIN TableOf(dec) :
            LET field == TableOf(dec)[oid]
            IN /\ field \in DOMAIN dec.out => Shows(dec, oid, dec.out[field])
               /\ dec.device[oid].t # "nil" => field \in DOMAIN dec.out

\* the six system values of a device went through a request that began with
\* the last OID of the table and ended with the first
C24_Witness ==
    /\ dec.op = "system"
    /\ dec.order[1] = "1.3.6.1.2.1.2.1.0"
    /\ dec.order[6] = "1.3.6.1.2.1.1.5.0"
    /\ Cardinality(DOMAIN dec.out) = 6
    /\ dec.out["system.name"] = S("r1")
    /\ dec.out["system.uptime"].t \in {"uint32", "string"}

\* C25: each scalar of the system fetch is decoded by its shape: bytes become
\* a string, a nil value becomes the string "nil", and any other value is
\* passed on unchanged, as the scalar it is.
C25_ScalarDecodedByShape ==
    dec.op = "system" =>
        \A oid \in DOMAIN SNMPOids :
            LET val == dec.device[oid]
                got == dec.out[SNMPOids[oid]]
            IN CASE val.t = "nil" -> got = S(Nil)
                 [] val.t = "bytes" -> got = S(String(val.v))
                 [] OTHER -> got.t = val.t /\ got.v = val.v

\* C26, as stated: the uptime decode of the tick count 864005900 gives the
\* text "100 days, 00 hours, 00 minutes, 00 seconds".
C26_UptimeOfExample_AsStated ==
    dec.op = "uptime" /\ dec.ticks = 864005900 =>
        dec.out = "100 days, 00 hours, 00 minutes, 00 seconds"

\* C26: the uptime decode of the tick count 864005900 (hundredths of a
\* second, so 8640059 seconds) gives the text "Uptime: 100 days, 00 hours,
\* 00 minutes, 59 seconds"; it is the tick count 864000000 that gives 00
\* seconds.
C26_UptimeOfExample ==
    /\ dec.op = "uptime" /\ dec.ticks = 864005900 =>
          dec.out = "Uptime: 100 days, 00 hours, 00 minutes, 59 seconds"
    /\ dec.op = "uptime" /\ dec.ticks = 864000000 =>
          dec.out = "Uptime: 100 days, 00 hours, 00 minutes, 00 seconds"

\* the tick count of the example was decoded
C26_Witness == dec.op = "uptime" /\ dec.ticks = 864005900 /\ dec.out # ""

\* C27: when the uptime of the system data is absent or is not a tick count
\* the polling job ends with a fail result: the decode neither panics (which
\* would end the worker) nor gives a success result.
C27_OddUptimeFailsJob ==
    pipe.oddUptime =>
        /\ ~pipe.panicked
        /\ pipe.pc = "done" => pipe.status = Fail

\* C28: the physical address is decoded from its bytes to six upper-case
\* pairs of hex digits joined by one separator, the same wherever a physical
\* address is formatted: the bytes AA BB CC 00 11 22 give "AA:BB:CC:00:11:22".
C28_PhysicalAddressFormat ==
    /\ dec.op = "interface"
    /\ dec.device["1.3.6.1.2.1.2.2.1.6"] = Bytes(<<170, 187, 204, 0, 17, 34>>)
    => dec.out[physicalAddress] = S("AA:BB:CC:00:11:22")

\* C29: the interfaces a polling job fetches are those whose indexes the walk
\* of the interface-name column returned, a sparse set of indexes included;
\* they are not the numbers 1..N made from the interface count of the device.
C29_FetchesWalkedIndexes ==
    pipe.enumerated # <<>> =>
        /\ Range(pipe.enumerated) = pipe.device
        /\ "walk" \in Range(pipe.calls)

\* C30: an attribute of an interface whose value in the response is nil is
\* not a key of the interface's record: nothing is stored in its place.
C30_NilAttributeOmitted ==
    dec.op = "interface" =>
        \A oid \in DOMAIN InterfaceOids :
            dec.device[oid].t = "nil" => InterfaceOids[oid] \notin DOMAIN dec.out

\* a record was made of a response that has a speed and an address and no
\* name
C30_Witness ==
    /\ dec.op = "interface"
    /\ dec.device["1.3.6.1.2.1.31.1.1.1.1"] = NilValue
    /\ dec.device["1.3.6.1.2.1.2.2.1.5"] # NilValue
    /\ DOMAIN dec.out = {"index", "interface.index", "interface.speed", physicalAddress}

\* C31: a job whose pluginType is not "snmp" is rejected with status fail and
\* makes no connect, get or walk call, in discovery and in polling alike
C31_UnsupportedPluginRejected ==
    (/\ pipe.variant \in JobObjectVariants
     /\ pipe.req.pluginType # S(SNMPPlugin))
    => /\ pipe.calls = <<>>
       /\ ~pipe.panicked
       /\ pipe.pc = "done" => pipe.status = Fail

\* a job that has every field but, maybe, the port
CompleteButPort(req) ==
    /\ req.ip = S("10.0.0.1")
    /\ req.community = S("public")
    /\ req.version = S("2c")
    /\ req.pluginType = S(SNMPPlugin)
    /\ req.requestId = S("1")

\* C32: the port is optional: a job without a port is not turned away (no
\* fail result and no fault before the connect) and its session uses port 161,
\* and the session of a job with a port uses that port (as a whole number)
C32_PortOptional ==
    pipe.variant \in JobObjectVariants =>
       /\ pipe.port # "" =>
             pipe.port = IF pipe.req.port = Absent THEN "161"
                         ELSE IntOf(pipe.req.port.v)
       /\ (CompleteButPort(pipe.req) /\ pipe.req.port = Absent /\ pipe.calls = <<>>)
             => pipe.pc = "connect"

\* StartPull is in its loop: in pull.Recv or in a send it will come back from
RouterLoops == routerPc \in {"recv", "health", "enqD", "enqP"}

\* C33: the router loop goes on after any payload: its pass over a payload
\* that is not JSON, or whose requestType is absent or not a string, leaves it
\* in its loop, and the process is never ended by the router
C33_RouterSurvivesAnyPayload ==
    [][/\ \A p \in Receivable : Handles(p) => RouterLoops'
       /\ crashed' # "router panic"]_vars

\* the seconds that the four fields of an uptime add up to
FieldSeconds(f) == f.days * 86400 + f.hours * 3600 + f.minutes * 60 + f.seconds

\* total = floor(ticks / 100), for a tick count below 2^31
IsFloorOfHundredth(total, ticks) ==
    /\ total <= 21474836
    /\ 100 * total <= ticks
    /\ ticks - 100 * total < 100

\* the same for a tick count in halves: 100 * total is taken in halves as
\* well, and the difference to the tick count is 0 .. 99
IsFloorOfHundredthHalves(total, u) ==
    /\ total <= 42949672
    /\ LET product == 100 * (total % 65536)
           hi == 100 * (total \div 65536) + product \div 65536
           lo == product % 65536
       IN /\ u.hi - hi \in {0, 1}
          /\ (u.hi - hi) * 65536 + (u.lo - lo) \in 0 .. 99

\* a number below 100 in two digits
TwoDigits(n) == Dec(n \div 10) \o Dec(n % 10)

\* C34: for every tick count t of the 32-bit unsigned range the rendered
\* uptime shows days, hours, minutes and seconds with hours < 24, minutes < 60,
\* seconds < 60 and days*86400 + hours*3600 + minutes*60 + seconds =
\* floor(t / 100)
C34_UptimeFieldsExact ==
    dec.op \in {"uptime", "uptime high"} =>
        LET f == dec.fields
        IN /\ f.days >= 0 /\ f.hours \in 0 .. 23
           /\ f.minutes \in 0 .. 59 /\ f.seconds \in 0 .. 59
           /\ dec.out = "Uptime: " \o Dec(f.days) \o " days, "
                          \o TwoDigits(f.hours) \o " hours, "
                          \o TwoDigits(f.minutes) \o " minutes, "
                          \o TwoDigits(f.seconds) \o " seconds"
           /\ dec.op = "uptime" => IsFloorOfHundredth(FieldSeconds(f), dec.ticks)
           /\ dec.op = "uptime high" =>
                 IsFloorOfHundredthHalves(FieldSeconds(f), dec.ticks)

\* the greatest tick count, 2^32 - 1, was rendered: 497 days, 02 hours, 27
\* minutes, 52 seconds
C34_Witness ==
    /\ dec.op = "uptime high"
    /\ dec.ticks = Halves(65535, 65535)
    /\ dec.out = "Uptime: 497 days, 02 hours, 27 minutes, 52 seconds"

\* C35: in the loops on a REP socket every receive is followed by exactly one
\* send before the next receive, on every branch (unparsable JSON, missing
\* fields, unsupported plugin or request type, marshal failure, successful
\* poll): a loop is never back at its receive with the reply still due, and
\* the socket never has to refuse a receive
C35_ReceiveSendAlternate ==
    /\ sock.pc = "recv" /\ sock.recvs > 0 => sock.last.sends = 1 /\ ~sock.due
    /\ ~sock.refused

\* the positions of a call of one kind in the calls a pipeline made
Positions(calls, kind) == {i \in 1 .. Len(calls) : calls[i] = kind}

\* C36: in one polling job of FetchSNMPData the session operations come in
\* the order connect, one batched system get, one walk, one get for each
\* discovered index, close: no get or walk before the connect succeeded or
\* after the close, and the system get exactly once
C36_SessionCallOrder ==
    pipe.variant = vPolling =>
        LET c == pipe.calls
            n == Len(c)
            gets == Positions(c, "get")
            walks == Positions(c, "walk")
        IN /\ Positions(c, "connect") \subseteq {1}
           /\ n >= 1 => c[1] = "connect"
           /\ n >= 2 => ~pipe.connectFailed /\ c[2] = "get"
           /\ walks \subseteq {3}
           /\ \A i \in gets : i = 2 \/ (i > 3 /\ walks = {3})
           /\ Cardinality(gets \ {2}) <= Len(pipe.enumerated)
           /\ Positions(c, "close") \subseteq {n}
           /\ pipe.pc = "done" /\ n >= 2 =>
                 /\ c[n] = "close"
                 /\ pipe.scalarFailed => n = 3
                 /\ ~pipe.scalarFailed =>
                       /\ walks = {3}
                       /\ Cardinality(gets \ {2}) = Len(pipe.enumerated)
                       /\ n = Len(pipe.enumerated) + 4

\* a polling job over a device with MaxIfs interfaces ran to its end: connect,
\* system get, walk, a get for each index, close
C36_Witness ==
    /\ pipe.variant = vPolling
    /\ pipe.pc = "done"
    /\ Len(pipe.enumerated) = MaxIfs
    /\ pipe.failed # {}
    /\ Len(pipe.calls) = MaxIfs + 4

\* the records of interfacesData that hold index i
RecordsOf(i) ==
    {k \in 1 .. Len(coll.interfacesData) : coll.interfacesData[k].index = i}

\* C37: the concurrent collectors never deadlock, return only after all N
\* fetchers they started have finished, and return exactly N records, one for
\* each index 1 .. N (with an error in it when the fetch failed): no record is
\* lost or duplicated by the concurrent appends or channel sends
C37_CollectsEveryIndexOnce ==
    /\ coll.main \in {"loop", "wait", "range"} => ENABLED NextCollect
    /\ coll.main = "returned" =>
          /\ \A i \in 1 .. coll.numInterfaces : coll.phase[i] = "done"
          /\ Len(coll.interfacesData) = coll.numInterfaces
          /\ \A i \in 1 .. coll.numInterfaces :
                /\ Cardinality(RecordsOf(i)) = 1
                /\ \A k \in RecordsOf(i) :
                      coll.interfacesData[k].error = ~coll.fetched[i]

\* a collector returned the records of MaxIfs fetches, one of them failed,
\* in another order than the fetches were started in
C37_Witness ==
    /\ coll.main = "returned"
    /\ coll.numInterfaces = MaxIfs
    /\ \E i \in 1 .. MaxIfs : ~coll.fetched[i]
    /\ coll.interfacesData[1].index = MaxIfs

\* C38: when the enumeration of the interfaces fails (the walk, or the parse
\* of a returned index) the polling job still ends with status success and
\* the system attributes, an interface count of 0, an interface error, no
\* interfaces list, and without any per-interface fetch
C38_WalkFailureKeepsSystemData ==
    (pipe.variant = vPolling /\ pipe.walk \in {"error", "unparsable"}) =>
        /\ ~pipe.panicked
        /\ Positions(pipe.calls, "get") = {2}
        /\ pipe.interfaces = <<>> /\ ~pipe.hasInterfaces
        /\ pipe.status = Success
        /\ pipe.data.present /\ pipe.data.systemName = "router-1"
        /\ pipe.data.error = "" /\ pipe.error = ""
        /\ pipe.count = 0
        /\ pipe.interfaceError = "Error fetching interface indexes"

\* a polling job whose walk returned an index that did not parse ran to its
\* end
C38_Witness ==
    /\ pipe.variant = vPolling
    /\ pipe.walk = "unparsable"
    /\ pipe.pc = "done"
    /\ pipe.calls = <<"connect", "get", "walk", "close">>

\* the interface count a result reports: data[system.interfaces], and 0 for
\* the result that has no such key (the one written when the system get
\* failed)
ReportedCount == IF pipe.count < 0 THEN 0 ELSE pipe.count

\* C39: in every successful polling result of FetchSNMPData the reported
\* interface count is the number of enumerated indexes, the number of
\* interface records is at most the count, with equality exactly when no
\* per-interface fetch failed, and the index of every record is one of the
\* enumerated indexes and appears once
C39_RecordsWithinCount ==
    (/\ pipe.variant = vPolling
     /\ pipe.pc = "done"
     /\ pipe.status = Success) =>
        LET records == pipe.interfaces
        IN /\ ReportedCount = Len(pipe.enumerated)
           /\ Len(records) <= ReportedCount
           /\ (Len(records) = ReportedCount) <=> (pipe.failed = {})
           /\ \A k \in 1 .. Len(records) :
                 /\ records[k].index \in Range(pipe.enumerated)
                 /\ \A l \in 1 .. Len(records) :
                       records[l].index = records[k].index => l = k

\* a polling job over MaxIfs interfaces ended with success, one fetch failed
\* and the other records are in the result
C39_Witness ==
    /\ pipe.variant = vPolling
    /\ pipe.pc = "done"
    /\ pipe.status = Success
    /\ pipe.count = MaxIfs
    /\ Cardinality(pipe.failed) = 1
    /\ Len(pipe.interfaces) = MaxIfs - 1

\* a value of reqData as json.Marshal writes it: a float64 and an int are both
\* JSON numbers
Marshalled(val) == IF val.t = "int" THEN N(val.v) ELSE val

\* C40: a pipeline writes only the status, data and error keys of the job
\* object: every field of the request is unchanged in the reply, which is the
\* request object plus those keys
C40_OnlyResultKeysWritten ==
    pipe.variant \in JobObjectVariants =>
        \A k \in DOMAIN pipe.req : Marshalled(pipe.reqData[k]) = pipe.req[k]

====
